---------------------------- MODULE Spec2Model ----------------------------
(***************************************************************************)
(* Model of the attendance backend (server.js and its later revision with  *)
(* the last-presences cache): the member roster cache, the upstream fetch  *)
(* and the /login handler (Spec, FairSpec), and the presence routes with   *)
(* the last-presences cache and the activity log (SpecPresence).           *)
(*                                                                         *)
(* Text is modelled as a sequence of characters, one short string per      *)
(* character, so that normalisation, trimming, prefix and substring tests  *)
(* are computed the way the JavaScript computes them.  Accented letters    *)
(* are written "a~" (a with tilde), "i'" (i with acute) and so on; the     *)
(* combining marks NFD produces are "U+0303", "U+0301", "U+0327".          *)
(***************************************************************************)
EXTENDS Integers, Sequences, FiniteSets, TLC

-----------------------------------------------------------------------------
(* JavaScript values that are not text *)

\* undefined (a property missing from a JSON body, an unset environment
\* variable), written as a one-element sequence that is no text
Undefined == <<"#undefined">>

\* typeof v === 'string'
IsString(v) == v # Undefined

\* a variable that holds null or a value: <<>> is null, <<v>> is the value v
Null == <<>>
Some(v) == <<v>>

-----------------------------------------------------------------------------
(* Characters *)

UpperChars ==
  << "A","B","C","D","E","F","G","H","I","J","K","L","M",
     "N","O","P","Q","R","S","T","U","V","W","X","Y","Z",
     "A~","I'","C," >>

LowerChars ==
  << "a","b","c","d","e","f","g","h","i","j","k","l","m",
     "n","o","p","q","r","s","t","u","v","w","x","y","z",
     "a~","i'","c," >>

\* String.prototype.toLowerCase on one character
LowerChar(c) ==
  IF \E i \in 1..Len(UpperChars) : UpperChars[i] = c
  THEN LowerChars[CHOOSE i \in 1..Len(UpperChars) : UpperChars[i] = c]
  ELSE c

\* the combining diacritical marks, the range \\u0300-\\u036f of the regular expression
CombiningMarks == {"U+0301", "U+0303", "U+0327"}

\* canonical decomposition (NFD) of one character
DecomposeChar(c) ==
  CASE c = "a~" -> <<"a", "U+0303">>
    [] c = "A~" -> <<"A", "U+0303">>
    [] c = "i'" -> <<"i", "U+0301">>
    [] c = "I'" -> <<"I", "U+0301">>
    [] c = "c," -> <<"c", "U+0327">>
    [] c = "C," -> <<"C", "U+0327">>
    [] OTHER    -> <<c>>

\* the characters String.prototype.trim removes
Whitespace == {" ", "\t"}

-----------------------------------------------------------------------------
(* String operations *)

RECURSIVE toLowerCase(_)
toLowerCase(s) ==
  IF s = <<>> THEN <<>> ELSE <<LowerChar(Head(s))>> \o toLowerCase(Tail(s))

RECURSIVE normalizeNFD(_)
normalizeNFD(s) ==
  IF s = <<>> THEN <<>> ELSE DecomposeChar(Head(s)) \o normalizeNFD(Tail(s))

\* .replace(/[\\u0300-\\u036f]/g, "")
stripMarks(s) == SelectSeq(s, LAMBDA c : c \notin CombiningMarks)

RECURSIVE trimStart(_)
trimStart(s) ==
  IF s # <<>> /\ Head(s) \in Whitespace THEN trimStart(Tail(s)) ELSE s

RECURSIVE trimEnd(_)
trimEnd(s) ==
  IF s # <<>> /\ s[Len(s)] \in Whitespace
  THEN trimEnd(SubSeq(s, 1, Len(s) - 1))
  ELSE s

trim(s) == trimEnd(trimStart(s))

\* s.startsWith(p)
startsWith(s, p) == Len(p) <= Len(s) /\ SubSeq(s, 1, Len(p)) = p

\* s.includes(sub)
includes(s, sub) ==
  \E i \in 0..(Len(s) - Len(sub)) : SubSeq(s, i + 1, i + Len(sub)) = sub

\* s.substring(n)
substring(s, n) == SubSeq(s, n + 1, Len(s))

\* String(v || '')
StringOrEmpty(v) == IF IsString(v) THEN v ELSE <<>>

\* normalizeString trimming before the marks are removed
normalizeStringTrimFirst(str) ==
  IF ~IsString(str) THEN <<>>
  ELSE stripMarks(trim(normalizeNFD(toLowerCase(str))))

\* normalizeString without the canonical decomposition
normalizeStringNoNFD(str) ==
  IF ~IsString(str) THEN <<>>
  ELSE trim(stripMarks(toLowerCase(str)))

\* normalizeString (basic variant)
normalizeString(str) ==
  IF ~IsString(str) THEN <<>>
  ELSE trim(stripMarks(normalizeNFD(toLowerCase(str))))

-----------------------------------------------------------------------------
(* Members and the decision of /login once the roster is at hand *)

\* A member as the upstream sheet delivers it; a missing field is Undefined.
\* GAPE is the group column that POST /presenca reads.
Member(nome, ri, cargo, status, lider, congregacao, gape) ==
  [Nome |-> nome, RI |-> ri, Cargo |-> cargo, Status |-> status,
   Lider |-> lider, Congregacao |-> congregacao, GAPE |-> gape]

\* res.status(code).json({ success, message, leaderName })
Response(status, success, message, leaderName) ==
  [status |-> status, success |-> success, message |-> message,
   leaderName |-> leaderName]

MsgAdmin       == "Login bem-sucedido como Administrador!"
MsgLeader      == "Login bem-sucedido"
MsgNotLeader   == "Usuario nao possui permissao de lider."
MsgBadPassword == "Senha (RI) invalida."
MsgNotFound    == "Usuario nao encontrado."
MsgNoMembers   == "Erro: Dados de membros nao carregados."
MsgInternal    == "Erro interno do servidor ao autenticar."

lider == <<"l","i","d","e","r">>

\* membros.find(m => normalizeString(m.Nome || '').includes(usernameNormalized)):
\* the index of the first such member, 0 when find returns undefined
membroEncontrado(membros, usernameNormalized) ==
  LET hits == {i \in 1..Len(membros) :
                 includes(normalizeString(StringOrEmpty(membros[i].Nome)),
                          usernameNormalized)}
  IN IF hits = {} THEN 0 ELSE CHOOSE i \in hits : \A j \in hits : i <= j

\* the role test asking for the marker alone in place of a title holding it
isLeaderByRoleExact(m) ==
  \/ normalizeString(StringOrEmpty(m.Cargo)) = lider
  \/ normalizeString(StringOrEmpty(m.Status)) = lider

\* cargoMembro.includes('lider') || statusMembro.includes('lider')
isLeaderByRole(m) ==
  \/ includes(normalizeString(StringOrEmpty(m.Cargo)), lider)
  \/ includes(normalizeString(StringOrEmpty(m.Status)), lider)

\* the leader's name taken from a record's Lider field, the prefix
\* "<Congregacao> | " removed when the field starts with it (case-insensitive)
nomeLiderExtraido(outroMembro) ==
  LET liderNaPlanilhaCompleto == trim(StringOrEmpty(outroMembro.Lider))
      congregacaoOutroMembro  == trim(StringOrEmpty(outroMembro.Congregacao))
      prefixo == IF congregacaoOutroMembro # <<>>
                 THEN congregacaoOutroMembro \o <<" ", "|", " ">>
                 ELSE <<>>
  IN IF prefixo # <<>>
        /\ startsWith(toLowerCase(liderNaPlanilhaCompleto), toLowerCase(prefixo))
     THEN trim(substring(liderNaPlanilhaCompleto, Len(prefixo)))
     ELSE liderNaPlanilhaCompleto

\* the callback of membros.some with equality in place of the prefix test
namesAsLeaderExact(outroMembro, nomeDoMembroLogando) ==
  normalizeString(nomeLiderExtraido(outroMembro)) = nomeDoMembroLogando

\* the callback of membros.some: the two-way prefix test
namesAsLeader(outroMembro, nomeDoMembroLogando) ==
  LET nomeLiderNormalizado == normalizeString(nomeLiderExtraido(outroMembro))
  IN \/ startsWith(nomeDoMembroLogando, nomeLiderNormalizado)
     \/ startsWith(nomeLiderNormalizado, nomeDoMembroLogando)

\* isLeader after both checks; the roster scan runs only when the role check fails
isLeader(membro, membros) ==
  \/ isLeaderByRole(membro)
  \/ \E i \in 1..Len(membros) :
        namesAsLeader(membros[i], normalizeString(membro.Nome))

\* the try block answering a leader's login with the username as it was typed
authenticateTypedName(username, password, membros) ==
  IF Len(membros) = 0
  THEN Response(404, FALSE, MsgNoMembers, Undefined)
  ELSE
    LET usernameNormalized == normalizeString(username)
        passwordDigitado   == trim(StringOrEmpty(password))
        found              == membroEncontrado(membros, usernameNormalized)
    IN IF found = 0
       THEN Response(401, FALSE, MsgNotFound, Undefined)
       ELSE IF trim(StringOrEmpty(membros[found].RI)) # passwordDigitado
       THEN Response(401, FALSE, MsgBadPassword, Undefined)
       ELSE IF isLeader(membros[found], membros)
       THEN Response(200, TRUE, MsgLeader, username)
       ELSE Response(401, FALSE, MsgNotLeader, Undefined)

\* the try block with the leadership test put before the credential test
authenticateLeaderFirst(username, password, membros) ==
  IF Len(membros) = 0
  THEN Response(404, FALSE, MsgNoMembers, Undefined)
  ELSE
    LET usernameNormalized == normalizeString(username)
        passwordDigitado   == trim(StringOrEmpty(password))
        found              == membroEncontrado(membros, usernameNormalized)
    IN IF found = 0
       THEN Response(401, FALSE, MsgNotFound, Undefined)
       ELSE IF ~isLeader(membros[found], membros)
       THEN Response(401, FALSE, MsgNotLeader, Undefined)
       ELSE IF trim(StringOrEmpty(membros[found].RI)) # passwordDigitado
       THEN Response(401, FALSE, MsgBadPassword, Undefined)
       ELSE Response(200, TRUE, MsgLeader, membros[found].Nome)

\* the try block with the credential compared without regard to letter case
authenticateCaseFold(username, password, membros) ==
  IF Len(membros) = 0
  THEN Response(404, FALSE, MsgNoMembers, Undefined)
  ELSE
    LET usernameNormalized == normalizeString(username)
        passwordDigitado   == trim(StringOrEmpty(password))
        found              == membroEncontrado(membros, usernameNormalized)
    IN IF found = 0
       THEN Response(401, FALSE, MsgNotFound, Undefined)
       ELSE IF toLowerCase(trim(StringOrEmpty(membros[found].RI)))
                 # toLowerCase(passwordDigitado)
       THEN Response(401, FALSE, MsgBadPassword, Undefined)
       ELSE IF isLeader(membros[found], membros)
       THEN Response(200, TRUE, MsgLeader, membros[found].Nome)
       ELSE Response(401, FALSE, MsgNotLeader, Undefined)

\* the body of the try block of /login after getMembrosWithCache returned membros
authenticate(username, password, membros) ==
  IF Len(membros) = 0
  THEN Response(404, FALSE, MsgNoMembers, Undefined)
  ELSE
    LET usernameNormalized == normalizeString(username)
        passwordDigitado   == trim(StringOrEmpty(password))
        found              == membroEncontrado(membros, usernameNormalized)
    IN IF found = 0
       THEN Response(401, FALSE, MsgNotFound, Undefined)
       ELSE IF trim(StringOrEmpty(membros[found].RI)) # passwordDigitado
       THEN Response(401, FALSE, MsgBadPassword, Undefined)
       ELSE IF isLeader(membros[found], membros)
       THEN Response(200, TRUE, MsgLeader, membros[found].Nome)
       ELSE Response(401, FALSE, MsgNotLeader, Undefined)

-----------------------------------------------------------------------------
(* The data the model runs on *)

Str_123     == <<"1","2","3">>
Str_secret  == <<"s","e","c","r","e","t">>
Str_admin   == <<"a","d","m","i","n">>
Str_Admin   == <<"A","d","m","i","n">>
Str_Membro  == <<"M","e","m","b","r","o">>
Str_Lider   == <<"L","i'","d","e","r">>
Str_Ana     == <<"A","n","a">>
Str_AnaPaula == <<"A","n","a"," ","P","a","u","l","a">>
Str_Carlos  == <<"C","a","r","l","o","s">>
Str_CarlosSouza == <<"C","a","r","l","o","s"," ","S","o","u","z","a">>
Str_MariaSilva == <<"M","a","r","i","a"," ","S","i","l","v","a">>
Str_Bia     == <<"B","i","a">>
Str_G1      == <<"G","1">>
Str_G1_MariaS == <<"g","1"," ","|"," ","M","a","r","i","a"," ","S">>
Str_G1_Ana  == <<"G","1"," ","|"," ","A","n","a">>

\* the roster of the scenario "Carlos Souza only": no Lider field at all
RosterCarlos ==
  << Member(Str_CarlosSouza, Str_123, Str_Membro, Undefined, Undefined, Undefined,
            Undefined) >>

\* an earlier record matches "Ana" as a substring, a later one exactly
RosterAna ==
  << Member(Str_AnaPaula, Str_123, Str_Lider, Undefined, Str_G1_Ana, Str_G1, Str_G1),
     Member(Str_Ana, Str_123, Str_Lider, Undefined, Str_G1_Ana, Str_G1, Str_G1) >>

\* every record names a leader; Maria Silva is named by the other two
RosterGrupo ==
  << Member(Str_MariaSilva, Str_123, Str_Membro, Undefined, Str_G1_Ana, Str_G1, Str_G1),
     Member(Str_Bia, Str_123, Str_Membro, Undefined, Str_G1_MariaS, Str_G1, Str_G1),
     Member(Str_CarlosSouza, Str_123, Str_Membro, Undefined, Str_G1_MariaS, Str_G1, Str_G1) >>

\* the member lists the upstream sheet may deliver
Rosters == {<<>>, RosterCarlos, RosterAna, RosterGrupo}

\* the usernames tried: missing from the body, blank, and names
Usernames ==
  {Undefined, <<" ">>, Str_Ana, Str_Carlos, Str_MariaSilva, Str_Admin}

\* the passwords tried: missing, a credential, one padded with blanks, another
Passwords == {Undefined, Str_123, <<" ">> \o Str_123 \o <<" ">>, Str_secret}

\* the leadership and credential scenarios
Str_Abc     == <<"A","b","c">>
Str_abc     == <<"a","b","c">>
Str_LiderDeGrupo == <<"L","i'","d","e","r"," ","d","e"," ","G","r","u","p","o">>
Str_LIDER   == <<"L","I","D","E","R">>
Str_G1_Bia  == <<"G","1"," ","|"," ","B","i","a">>
Str_G1_Zed  == <<"G","1"," ","|"," ","Z","e","d">>

\* Bia is named as leader in her own record only; nobody names Carlos Souza
RosterSelf ==
  << Member(Str_Bia, Str_123, Str_Membro, Undefined, Str_G1_Bia, Str_G1, Str_G1),
     Member(Str_CarlosSouza, Str_123, Str_Membro, Undefined, Str_G1_Zed, Str_G1,
            Str_G1) >>

\* leaders by role title and by status whom no leader field names; one
\* credential has letters, the other is padded with blanks in the sheet
RosterCargo ==
  << Member(Str_Ana, Str_Abc, Str_LiderDeGrupo, Undefined, Str_G1_Zed, Str_G1,
            Str_G1),
     Member(Str_Bia, <<" ">> \o Str_123 \o <<" ">>, Str_Membro, Str_LIDER,
            Str_G1_Zed, Str_G1, Str_G1) >>

AuthRosters == {RosterGrupo, RosterSelf, RosterCargo}

AuthUsernames == {Str_Ana, Str_Bia, Str_Carlos, Str_MariaSilva, Str_Admin}

\* credentials as they are, padded with blanks, and in another letter case
AuthPasswords ==
  { Str_123, <<" ">> \o Str_123 \o <<" ">>, Str_Abc, Str_abc,
    Str_secret, <<" ">> \o Str_secret, <<"S","e","c","r","e","t">> }

\* the round trips of the credential scenarios all deliver a roster
AuthOutcomes == [outcome : {"ok"}, membros : AuthRosters]

\* leaders whose credential column is missing, empty or blank, and one
\* with a credential
RosterSemRI ==
  << Member(Str_Ana, Undefined, Str_Lider, Undefined, Str_G1_Zed, Str_G1, Str_G1),
     Member(Str_Bia, <<" ">>, Str_Lider, Undefined, Str_G1_Zed, Str_G1, Str_G1),
     Member(Str_MariaSilva, <<>>, Str_Lider, Undefined, Str_G1_Zed, Str_G1, Str_G1),
     Member(Str_CarlosSouza, Str_123, Str_Lider, Undefined, Str_G1_Zed, Str_G1,
            Str_G1) >>

BlankRosters == {RosterSemRI, RosterCargo}

BlankUsernames == {Str_Ana, Str_Bia, Str_MariaSilva, Str_Carlos}

\* passwords missing from the body, empty, blank, and a credential
BlankPasswords == {Undefined, <<>>, <<" ">>, <<" ", "\t">>, Str_123}

BlankOutcomes == [outcome : {"ok"}, membros : BlankRosters]

\* process.env as the handlers read it
Env(adminUsername, adminRi, url) ==
  [ADMIN_USERNAME |-> adminUsername, ADMIN_RI |-> adminRi,
   APPS_SCRIPT_URL |-> url]

Str_url == <<"u","r","l">>

Environments ==
  { Env(Str_admin, Str_secret, Str_url),
    Env(Undefined, Str_secret, Str_url),
    Env(Str_admin, Undefined, Str_url),
    Env(Str_admin, Str_secret, Undefined) }

\* how one upstream round trip may end; a reply that parses and does not say
\* success:false is taken to carry success:true and a member list
UpstreamOutcomes ==
  [outcome : {"ok"}, membros : Rosters]
    \cup [outcome : {"transport", "status", "unparseable", "successFalse"},
          membros : {<<>>}]

-----------------------------------------------------------------------------
(* The state of the process *)

VARIABLES
  env,                   \* process.env, read once when the module loads
  now,                   \* Date.now()
  cachedMembros,         \* null or the cached member list
  lastMembrosFetchTime,  \* when cachedMembros was stored
  req,                   \* per handler: where it stands and what it holds
  cachedLastPresences,   \* null or the cached last presences
  lastPresencesFetchTime, \* when cachedLastPresences was stored
  ultimasAtividades,     \* the activity log, newest first
  sheet,                 \* upstream: how many presence mutations the sheet holds
  gets,                  \* the GET /get-all-last-presences requests
  posts,                 \* the POST /presenca requests
  invalidated,           \* history: /presenca has invalidated the last-presences
                         \* cache and getLastPresencesWithCache was not called since
  limpeza                \* the last answer of a route that clears the activity log

vars == <<env, now, cachedMembros, lastMembrosFetchTime, req,
          cachedLastPresences, lastPresencesFetchTime, ultimasAtividades,
          sheet, gets, posts, invalidated, limpeza>>

\* the state of the presence routes, which server.js does not have
pvars == <<cachedLastPresences, lastPresencesFetchTime, ultimasAtividades,
           sheet, gets, posts, invalidated, limpeza>>

MEMBERS_CACHE_TTL == 5 * 60 * 1000

\* the clock advances in steps of half the roster TTL
HalfTTL == MEMBERS_CACHE_TTL \div 2

\* Date.now() when the process starts
StartTime == 10 * MEMBERS_CACHE_TTL

\* how many clock steps a run takes
MaxTicks == 3

\* the handlers that call getMembrosWithCache: the prefetch of app.listen and /login
Slots == {"listen", "login"}

NoData == [kind |-> "none", membros |-> <<>>, error |-> ""]
OkData(membros) == [kind |-> "ok", membros |-> membros, error |-> ""]
Thrown(message) == [kind |-> "error", membros |-> <<>>, error |-> message]

NoResponse == Response(0, FALSE, "", Undefined)

\* how many GET /get-all-last-presences requests a run makes
MaxGets == 2

\* how many POST /presenca requests a run makes
MaxPosts == 1

GetSlots == 1..MaxGets
PostSlots == 1..MaxPosts

\* the body of a request to /presenca
Body(nome, acao, action, grupo) ==
  [nome |-> nome, acao |-> acao, action |-> action, grupo |-> grupo]

NoBody == Body(Undefined, Undefined, Undefined, Undefined)

\* what the upstream service sent back: outcome is "none" until it answers,
\* data is the sheet as the service read it
NoReply == [outcome |-> "none", data |-> 0]

\* the response of a presence route: the JSON of the upstream reply, or a message
PresenceResponse(status, success, data, message) ==
  [status |-> status, success |-> success, data |-> data, message |-> message]

NoPresenceResponse == PresenceResponse(0, FALSE, 0, "")

\* the answer of DELETE /ultimos-registros and of POST /limpar-registros
Limpeza(status, success, totalRemovidos) ==
  [status |-> status, success |-> success, totalRemovidos |-> totalRemovidos]

NoLimpeza == Limpeza(0, FALSE, 0)

\* a request of a presence route that has not arrived: pc is "idle", "await"
\* (getLastPresencesWithCache suspended), "awaitMembros", "awaitPost" or
\* "done"; source tells whether the answer came from the cache or upstream
IdleCall ==
  [pc |-> "idle", fetch |-> "none", body |-> NoBody, reply |-> NoReply,
   source |-> "none", res |-> NoPresenceResponse]

\* a handler that has not run: pc is "idle", "await" (suspended in
\* fetchFromAppsScript) or "done"; fetch is the state of its upstream round
\* trip; data is what getMembrosWithCache gave it; found is the index of
\* membroEncontrado; nres counts the responses written; escaped is set when
\* an exception leaves the handler
IdleReq ==
  [pc |-> "idle", fetch |-> "none", username |-> Undefined,
   password |-> Undefined, data |-> NoData, found |-> 0,
   res |-> NoResponse, nres |-> 0, escaped |-> FALSE]

Init ==
  /\ env \in Environments
  /\ now = StartTime
  /\ cachedMembros = Null
  /\ lastMembrosFetchTime = 0
  /\ req = [r \in Slots |-> IdleReq]
  /\ cachedLastPresences = Null
  /\ lastPresencesFetchTime = 0
  /\ ultimasAtividades = <<>>
  /\ sheet = 0
  /\ gets = [g \in GetSlots |-> IdleCall]
  /\ posts = [p \in PostSlots |-> IdleCall]
  /\ invalidated = FALSE
  /\ limpeza = NoLimpeza

-----------------------------------------------------------------------------
(* fetchFromAppsScript and getMembrosWithCache *)

ErrConfig      == "Erro de configuracao do servidor: URL ou Token do Apps Script nao definidos."
ErrStatus      == "Erro do Apps Script (Status)"
ErrInvalid     == "Resposta invalida do Apps Script. O script pode ter travado."
ErrSyntax      == "SyntaxError"
ErrUpstream    == "Erro desconhecido retornado pelo Apps Script."

\* if (!APPS_SCRIPT_URL || !APPS_SCRIPT_AUTH_TOKEN) throw
configMissing == env.APPS_SCRIPT_URL = Undefined \/ env.APPS_SCRIPT_URL = <<>>

\* what fetchFromAppsScript returns or throws once the round trip has ended
fetchResult(up) ==
  CASE up.outcome = "ok"           -> OkData(up.membros)
    [] up.outcome = "status"       -> Thrown(ErrStatus)
    [] up.outcome = "unparseable"  -> Thrown(ErrSyntax)
    [] up.outcome = "successFalse" -> Thrown(ErrUpstream)
    [] up.outcome = "transport"    -> Thrown(ErrInvalid)

\* the freshness test taking an empty cached list for no list
cacheFreshNonEmpty ==
  /\ cachedMembros # Null
  /\ Len(cachedMembros[1]) > 0
  /\ now - lastMembrosFetchTime < MEMBERS_CACHE_TTL

\* the freshness test with the TTL taken in seconds against a clock in milliseconds
cacheFreshSeconds ==
  cachedMembros # Null /\ now - lastMembrosFetchTime < MEMBERS_CACHE_TTL \div 1000

\* the freshness test with the boundary included
cacheFreshInclusive ==
  cachedMembros # Null /\ now - lastMembrosFetchTime <= MEMBERS_CACHE_TTL

\* cachedMembros && (Date.now() - lastMembrosFetchTime < MEMBERS_CACHE_TTL)
cacheFresh ==
  cachedMembros # Null /\ now - lastMembrosFetchTime < MEMBERS_CACHE_TTL

-----------------------------------------------------------------------------
(* The handlers *)

\* authenticate and membroEncontrado tabulated over the inputs of the model,
\* so that each is computed once per input and not once per step
loginDecision ==
  [u \in Usernames \cup AuthUsernames \cup BlankUsernames,
   p \in Passwords \cup AuthPasswords \cup BlankPasswords,
   membros \in Rosters \cup AuthRosters \cup BlankRosters |->
     [res   |-> authenticate(u, p, membros),
      found |-> IF Len(membros) = 0 THEN 0
                ELSE membroEncontrado(membros, normalizeString(u))]]

\* the admin test tabulated in the same way
adminDecision ==
  [e \in Environments, u \in Usernames \cup AuthUsernames \cup BlankUsernames,
   p \in Passwords \cup AuthPasswords \cup BlankPasswords |->
     /\ e.ADMIN_USERNAME \notin {Undefined, <<>>}
     /\ e.ADMIN_RI \notin {Undefined, <<>>}
     /\ normalizeString(u) = normalizeString(e.ADMIN_USERNAME)
     /\ p = e.ADMIN_RI]

\* the admin test of /login
isAdminLogin(username, password) == adminDecision[env, username, password]

\* /login whose catch answers a failed roster fetch as a denial
loginAfterRosterErrorDenied(rec, data) ==
  IF data.kind = "error"
  THEN [rec EXCEPT !.pc = "done", !.fetch = "none", !.data = data,
                   !.res = Response(401, FALSE, MsgNotFound, Undefined),
                   !.nres = 1]
  ELSE LET d == loginDecision[rec.username, rec.password, data.membros]
       IN [rec EXCEPT !.pc = "done", !.fetch = "none", !.data = data,
                      !.found = d.found, !.res = d.res, !.nres = 1]

\* /login without a catch: the rejection of getMembrosWithCache leaves the handler
loginAfterRosterNoCatch(rec, data) ==
  IF data.kind = "error"
  THEN [rec EXCEPT !.pc = "done", !.fetch = "none", !.data = data,
                   !.escaped = TRUE]
  ELSE LET d == loginDecision[rec.username, rec.password, data.membros]
       IN [rec EXCEPT !.pc = "done", !.fetch = "none", !.data = data,
                      !.found = d.found, !.res = d.res, !.nres = 1]

\* /login from "await getMembrosWithCache()" on: the try block and its catch
loginAfterRoster(rec, data) ==
  IF data.kind = "error"
  THEN [rec EXCEPT !.pc = "done", !.fetch = "none", !.data = data,
                   !.res = Response(500, FALSE, MsgInternal, Undefined),
                   !.nres = 1]
  ELSE LET d == loginDecision[rec.username, rec.password, data.membros]
       IN [rec EXCEPT !.pc = "done", !.fetch = "none", !.data = data,
                      !.found = d.found, !.res = d.res, !.nres = 1]

\* app.listen's callback without the .catch: a failed prefetch is an
\* unhandled rejection
listenAfterRosterNoCatch(rec, data) ==
  IF data.kind = "error"
  THEN [rec EXCEPT !.pc = "done", !.fetch = "none", !.escaped = TRUE]
  ELSE [rec EXCEPT !.pc = "done", !.fetch = "none"]

\* app.listen's callback: getMembrosWithCache().catch(log)
listenAfterRoster(rec, data) ==
  [rec EXCEPT !.pc = "done", !.fetch = "none"]

\* a caller that fetches again when its fetch has failed
afterRosterRetry(r, rec, data) ==
  IF data.kind = "error" /\ data.error # ErrConfig
  THEN [rec EXCEPT !.pc = "await", !.fetch = "pending"]
  ELSE IF r = "login" THEN loginAfterRoster(rec, data)
  ELSE listenAfterRoster(rec, data)

\* the caller's continuation once getMembrosWithCache has settled
afterRoster(r, rec, data) ==
  IF r = "login" THEN loginAfterRoster(rec, data) ELSE listenAfterRoster(rec, data)

\* getMembrosWithCache joining a round trip that another caller has in flight
callGetMembrosCoalesced(r, rec) ==
  IF cacheFresh
  THEN /\ req' = [req EXCEPT ![r] = afterRoster(r, rec, OkData(cachedMembros[1]))]
       /\ UNCHANGED <<cachedMembros, lastMembrosFetchTime>>
  ELSE IF configMissing
  THEN /\ req' = [req EXCEPT ![r] = afterRoster(r, rec, Thrown(ErrConfig))]
       /\ UNCHANGED <<cachedMembros, lastMembrosFetchTime>>
  ELSE IF \E o \in Slots \ {r} : req[o].fetch # "none"
  THEN /\ req' = [req EXCEPT ![r] = [rec EXCEPT !.pc = "await", !.fetch = "joined"]]
       /\ UNCHANGED <<cachedMembros, lastMembrosFetchTime>>
  ELSE /\ req' = [req EXCEPT ![r] = [rec EXCEPT !.pc = "await", !.fetch = "pending"]]
       /\ UNCHANGED <<cachedMembros, lastMembrosFetchTime>>

\* getMembrosWithCache up to its first suspension, called by handler r
callGetMembros(r, rec) ==
  IF cacheFresh
  THEN /\ req' = [req EXCEPT ![r] = afterRoster(r, rec, OkData(cachedMembros[1]))]
       /\ UNCHANGED <<cachedMembros, lastMembrosFetchTime>>
  ELSE IF configMissing
  THEN /\ req' = [req EXCEPT ![r] = afterRoster(r, rec, Thrown(ErrConfig))]
       /\ UNCHANGED <<cachedMembros, lastMembrosFetchTime>>
  ELSE /\ req' = [req EXCEPT ![r] = [rec EXCEPT !.pc = "await", !.fetch = "pending"]]
       /\ UNCHANGED <<cachedMembros, lastMembrosFetchTime>>

\* app.listen(PORT, callback): the server starts and prefetches the roster
Listen ==
  /\ req["listen"].pc = "idle"
  /\ callGetMembros("listen", req["listen"])
  /\ UNCHANGED <<env, now>>
  /\ UNCHANGED pvars

\* POST /login with the admin test left out
LoginStartNoAdminTest(username, password) ==
  /\ req["listen"].pc # "idle"
  /\ req["login"].pc \in {"idle", "done"}
  /\ callGetMembros("login",
       [IdleReq EXCEPT !.username = username, !.password = password])
  /\ UNCHANGED <<env, now>>
  /\ UNCHANGED pvars

\* POST /login with body { username, password }
LoginStart(username, password) ==
  /\ req["listen"].pc # "idle"
  /\ req["login"].pc \in {"idle", "done"}
  /\ LET rec == [IdleReq EXCEPT !.username = username, !.password = password]
     IN IF isAdminLogin(username, password)
        THEN /\ req' = [req EXCEPT !["login"] =
                          [rec EXCEPT !.pc = "done",
                                      !.res = Response(200, TRUE, MsgAdmin, Str_admin),
                                      !.nres = 1]]
             /\ UNCHANGED <<cachedMembros, lastMembrosFetchTime>>
        ELSE callGetMembros("login", rec)
  /\ UNCHANGED <<env, now>>
  /\ UNCHANGED pvars

\* the upstream service answers the round trip of handler r (or fails it)
UpstreamReply(r) ==
  /\ req[r].fetch = "pending"
  /\ req' = [req EXCEPT ![r].fetch = "arrived"]
  /\ UNCHANGED <<env, now, cachedMembros, lastMembrosFetchTime>>
  /\ UNCHANGED pvars

\* getMembrosWithCache caching a failed fetch as an empty roster
ResumeNegativeCaching(r, up) ==
  /\ req[r].fetch = "arrived"
  /\ LET data == fetchResult(up)
     IN /\ cachedMembros' = Some(data.membros)
        /\ lastMembrosFetchTime' = now
        /\ req' = [req EXCEPT ![r] = afterRoster(r, req[r], data)]
  /\ UNCHANGED <<env, now>>
  /\ UNCHANGED pvars

\* getMembrosWithCache storing the roster and leaving the timestamp for later
ResumeRosterOnly(r, up) ==
  /\ req[r].fetch = "arrived"
  /\ LET data == fetchResult(up)
     IN /\ IF data.kind = "ok"
           THEN /\ cachedMembros' = Some(data.membros)
                /\ UNCHANGED lastMembrosFetchTime
           ELSE UNCHANGED <<cachedMembros, lastMembrosFetchTime>>
        /\ req' = [req EXCEPT ![r] = afterRoster(r, req[r], data)]
  /\ UNCHANGED <<env, now>>
  /\ UNCHANGED pvars

\* handler r resumes with the outcome of its round trip: the rest of
\* fetchFromAppsScript, of getMembrosWithCache and of the handler
Resume(r, up) ==
  /\ req[r].fetch = "arrived"
  /\ LET data == fetchResult(up)
     IN /\ IF data.kind = "ok"
           THEN /\ cachedMembros' = Some(data.membros)
                /\ lastMembrosFetchTime' = now
           ELSE UNCHANGED <<cachedMembros, lastMembrosFetchTime>>
        /\ req' = [req EXCEPT ![r] = afterRoster(r, req[r], data)]
  /\ UNCHANGED <<env, now>>
  /\ UNCHANGED pvars

\* time passes
Tick ==
  /\ now + HalfTTL <= StartTime + MaxTicks * HalfTTL
  /\ now' = now + HalfTTL
  /\ UNCHANGED <<env, cachedMembros, lastMembrosFetchTime, req>>
  /\ UNCHANGED pvars

Next ==
  \/ Listen
  \/ \E u \in Usernames, p \in Passwords : LoginStart(u, p)
  \/ \E r \in Slots : UpstreamReply(r)
  \/ \E r \in Slots, up \in UpstreamOutcomes : Resume(r, up)
  \/ Tick

Spec == Init /\ [][Next]_vars

\* The event loop runs a handler whose round trip has ended, and runs the
\* listen callback; nothing obliges the upstream service to answer.
FairSpec ==
  /\ Spec
  /\ WF_vars(Listen)
  /\ WF_vars(\E r \in Slots, up \in UpstreamOutcomes : Resume(r, up))

\* /login with the credential and leadership scenarios: the roster is fetched
\* once and every later login is answered from the cache (the clock stands)
NextAuth ==
  \/ Listen
  \/ \E u \in AuthUsernames, p \in AuthPasswords : LoginStart(u, p)
  \/ \E r \in Slots : UpstreamReply(r)
  \/ \E r \in Slots, up \in AuthOutcomes : Resume(r, up)

SpecAuth == Init /\ [][NextAuth]_vars

\* /login with blank passwords against rosters whose credential column has
\* gaps (the clock stands)
NextBlank ==
  \/ Listen
  \/ \E u \in BlankUsernames, p \in BlankPasswords : LoginStart(u, p)
  \/ \E r \in Slots : UpstreamReply(r)
  \/ \E r \in Slots, up \in BlankOutcomes : Resume(r, up)

SpecBlank == Init /\ [][NextBlank]_vars

-----------------------------------------------------------------------------
(* The presence routes (src/unnamed/part_002): the last-presences cache,
   GET /get-all-last-presences, POST /presenca and the activity log. The
   upstream sheet is a counter of the presence mutations it has applied; a
   read of the sheet delivers the counter as the service saw it. *)

LAST_PRESENCES_CACHE_TTL == 2 * 60 * 1000

MAX_ATIVIDADES == 50

Str_NA      == <<"N","/","A">>
Str_Teste   == <<"T","e","s","t","e">>
Str_Acao    == <<"A","c,","a~","o",":"," ">>
Str_marcar  == <<"m","a","r","c","a","r">>
Str_adicionar == <<"a","d","i","c","i","o","n","a","r">>
Str_add     == <<"a","d","d">>
Str_remover == <<"r","e","m","o","v","e","r">>
Str_deletar == <<"d","e","l","e","t","a","r">>
Str_delete  == <<"d","e","l","e","t","e">>
Str_ausencia == <<"a","u","s","e","n","c","i","a">>
Str_falta   == <<"f","a","l","t","a">>
Str_editar  == <<"e","d","i","t","a","r">>

\* the bodies posted to /presenca: without a group, with "action" and a group,
\* without a name, with the group "N/A", with an action the switch does not know
PresencaBodies ==
  { Body(Str_CarlosSouza, Str_marcar, Undefined, Undefined),
    Body(Str_Bia, Undefined, Str_remover, Str_G1),
    Body(Undefined, Str_marcar, Undefined, Undefined),
    Body(Str_MariaSilva, Str_falta, Undefined, Str_NA),
    Body(Str_Ana, Str_editar, Undefined, Str_G1) }

\* how a round trip of a presence route may end: answered, or failed (the
\* routes treat every failure alike, one kind stands for them)
ReplyOutcomes == {"ok", "status"}

\* how the getMembros round trips of the listen callback and of /presenca
\* may end
MembrosOutcomes ==
  [outcome : {"ok"}, membros : {RosterCarlos, RosterGrupo}]
    \cup [outcome : {"transport"}, membros : {<<>>}]

ErrTransport == "FetchError"

\* the message of the error fetchFromAppsScript throws (part_002: only a
\* SyntaxError is rewritten, every other error is thrown on as it is)
fetchError(outcome) ==
  CASE outcome = "status"       -> ErrStatus
    [] outcome = "unparseable"  -> ErrInvalid
    [] outcome = "successFalse" -> ErrUpstream
    [] outcome = "transport"    -> ErrTransport

\* a value that an if or an || of the code takes as true
Truthy(v) == v # Undefined /\ v # <<>>

obterStatusPorTipo(tipo) ==
  CASE tipo = "presenca_adicionada" -> "Presente"
    [] tipo = "presenca_removida"   -> "Presenca Removida"
    [] tipo = "ausencia_marcada"    -> "Ausente"
    [] OTHER                        -> "Desconhecido"

\* adicionarAtividade dropping the wrong entry of a full list: the one before
\* the oldest goes and the oldest stays
adicionarAtividadeKeepsOldest(atividades, tipo, pessoa, grupo, detalhes) ==
  LET novaAtividade == [timestampCompleto |-> now, tipo |-> tipo,
                        pessoa |-> pessoa, grupo |-> grupo,
                        status |-> obterStatusPorTipo(tipo),
                        detalhes |-> detalhes]
      lista == <<novaAtividade>> \o atividades
  IN IF Len(lista) > MAX_ATIVIDADES
     THEN SubSeq(lista, 1, MAX_ATIVIDADES - 1) \o <<lista[Len(lista)]>>
     ELSE lista

\* adicionarAtividade: the new entry goes to the front, the list is cut to
\* MAX_ATIVIDADES (id and dataHora, derived from the clock, are left out)
adicionarAtividade(atividades, tipo, pessoa, grupo, detalhes) ==
  LET novaAtividade == [timestampCompleto |-> now, tipo |-> tipo,
                        pessoa |-> pessoa, grupo |-> grupo,
                        status |-> obterStatusPorTipo(tipo),
                        detalhes |-> detalhes]
      lista == <<novaAtividade>> \o atividades
  IN IF Len(lista) > MAX_ATIVIDADES THEN SubSeq(lista, 1, MAX_ATIVIDADES)
     ELSE lista

\* the entries the listen callback registers when the server starts
atividadesDeTeste ==
  <<
     [tipo |-> "presenca_adicionada",
      pessoa |-> <<"J","o","a~","o"," ","S","i","l","v","a">>,
      grupo |-> <<"0","0","0","1"," ","-"," ","G","r","u","p","o"," ","A","l","p","h","a">>],
     [tipo |-> "presenca_removida",
      pessoa |-> <<"M","a","r","i","a"," ","S","a","n","t","o","s">>,
      grupo |-> <<"0","0","0","2"," ","-"," ","G","r","u","p","o"," ","B","e","t","a">>],
     [tipo |-> "presenca_adicionada",
      pessoa |-> <<"P","e","d","r","o"," ","C","o","s","t","a">>,
      grupo |-> <<"0","0","0","1"," ","-"," ","G","r","u","p","o"," ","A","l","p","h","a">>],
     [tipo |-> "ausencia_marcada",
      pessoa |-> <<"A","n","a"," ","O","l","i","v","e","i","r","a">>,
      grupo |-> <<"0","0","0","3"," ","-"," ","G","r","u","p","o"," ","G","a","m","m","a">>],
     [tipo |-> "presenca_adicionada",
      pessoa |-> <<"C","a","r","l","o","s"," ","L","i","m","a">>,
      grupo |-> <<"0","0","0","2"," ","-"," ","G","r","u","p","o"," ","B","e","t","a">>],
     [tipo |-> "presenca_removida",
      pessoa |-> <<"S","a","n","d","r","a"," ","T","o","r","r","e","s">>,
      grupo |-> <<"0","0","0","4"," ","-"," ","G","r","u","p","o"," ","D","e","l","t","a">>],
     [tipo |-> "presenca_adicionada",
      pessoa |-> <<"R","o","b","e","r","t","o"," ","S","i","l","v","a">>,
      grupo |-> <<"0","0","0","5"," ","-"," ","G","r","u","p","o"," ","E","p","s","i","l","o","n">>],
     [tipo |-> "ausencia_marcada",
      pessoa |-> <<"F","e","r","n","a","n","d","a"," ","C","o","s","t","a">>,
      grupo |-> <<"0","0","0","1"," ","-"," ","G","r","u","p","o"," ","A","l","p","h","a">>],
     [tipo |-> "presenca_adicionada",
      pessoa |-> <<"L","u","c","a","s"," ","S","a","n","t","o","s">>,
      grupo |-> <<"0","0","0","2"," ","-"," ","G","r","u","p","o"," ","B","e","t","a">>],
     [tipo |-> "presenca_removida",
      pessoa |-> <<"M","a","r","i","a","n","a"," ","L","i","m","a">>,
      grupo |-> <<"0","0","0","3"," ","-"," ","G","r","u","p","o"," ","G","a","m","m","a">>]
  >>

\* the calls of adicionarAtividade in the listen callback, in their order
RECURSIVE adicionarAtividadesDeTeste(_, _)
adicionarAtividadesDeTeste(atividades, i) ==
  IF i > Len(atividadesDeTeste) THEN atividades
  ELSE adicionarAtividadesDeTeste(
         adicionarAtividade(atividades, atividadesDeTeste[i].tipo,
                            atividadesDeTeste[i].pessoa,
                            atividadesDeTeste[i].grupo, Str_Teste),
         i + 1)

\* the freshness test of the last-presences cache made with the roster's TTL
lastPresencesFreshRosterTTL ==
  cachedLastPresences # Null /\ now - lastPresencesFetchTime < MEMBERS_CACHE_TTL

\* cachedLastPresences && Date.now() - lastPresencesFetchTime < LAST_PRESENCES_CACHE_TTL
lastPresencesFresh ==
  /\ cachedLastPresences # Null
  /\ now - lastPresencesFetchTime < LAST_PRESENCES_CACHE_TTL

\* const acaoFinal = acao || action
acaoFinal(body) == IF Truthy(body.acao) THEN body.acao ELSE body.action

\* the switch of /presenca over acaoFinal
tipoAtividade(acao) ==
  CASE acao \in {Str_marcar, Str_adicionar, Str_add}    -> "presenca_adicionada"
    [] acao \in {Str_remover, Str_deletar, Str_delete}  -> "presenca_removida"
    [] acao \in {Str_ausencia, Str_falta}               -> "ausencia_marcada"
    [] OTHER                                            -> "presenca_adicionada"

\* if (nome && acaoFinal)
registersActivity(body) == Truthy(body.nome) /\ Truthy(acaoFinal(body))

\* if (!grupoFinal || grupoFinal === "N/A")
needsGroupLookup(body) == ~Truthy(body.grupo) \/ body.grupo = Str_NA

\* grupoFinal after the lookup in the members getMembrosWithCache returned:
\* the GAPE of the first member whose Nome is nome, if it has one
grupoDoMembro(membros, nome, grupo) ==
  LET found == {i \in 1..Len(membros) : membros[i].Nome = nome}
  IN IF found = {} THEN grupo
     ELSE LET membro == membros[CHOOSE i \in found : \A j \in found : i <= j]
          IN IF Truthy(membro.GAPE) THEN membro.GAPE ELSE grupo

\* the call of adicionarAtividade in /presenca
registrarAtividade(body, grupoFinal) ==
  adicionarAtividade(ultimasAtividades, tipoAtividade(acaoFinal(body)),
                     body.nome,
                     IF Truthy(grupoFinal) THEN grupoFinal ELSE Str_NA,
                     Str_Acao \o acaoFinal(body))

\* await fetchFromAppsScript({}, "POST", req.body) up to its suspension: the
\* configuration error is thrown before any request and answered by the catch
enviarPresenca(rec) ==
  IF configMissing
  THEN [rec EXCEPT !.pc = "done", !.fetch = "none", !.source = "error",
                   !.res = PresenceResponse(500, FALSE, 0, ErrConfig)]
  ELSE [rec EXCEPT !.pc = "awaitPost", !.fetch = "pending"]

\* app.listen(PORT, callback) of part_002: the test entries, then the prefetch
ListenWithTestActivities ==
  /\ req["listen"].pc = "idle"
  /\ ultimasAtividades' = adicionarAtividadesDeTeste(ultimasAtividades, 1)
  /\ callGetMembros("listen", req["listen"])
  /\ UNCHANGED <<env, now, cachedLastPresences, lastPresencesFetchTime,
                 sheet, gets, posts, invalidated, limpeza>>

\* GET /get-all-last-presences: getLastPresencesWithCache up to its suspension,
\* and the answer when it does not suspend
GetStart(g) ==
  /\ req["listen"].pc # "idle"
  /\ gets[g].pc = "idle"
  /\ \A h \in GetSlots : h < g => gets[h].pc # "idle"
  /\ invalidated' = FALSE
  /\ IF lastPresencesFresh
     THEN gets' = [gets EXCEPT ![g] =
                    [@ EXCEPT !.pc = "done", !.source = "cache",
                              !.res = PresenceResponse(200, TRUE,
                                        cachedLastPresences[1], "")]]
     ELSE IF configMissing
     THEN gets' = [gets EXCEPT ![g] =
                    [@ EXCEPT !.pc = "done", !.source = "error",
                              !.res = PresenceResponse(500, FALSE, 0, ErrConfig)]]
     ELSE gets' = [gets EXCEPT ![g] =
                    [@ EXCEPT !.pc = "await", !.fetch = "pending"]]
  /\ UNCHANGED <<env, now, cachedMembros, lastMembrosFetchTime, req,
                 cachedLastPresences, lastPresencesFetchTime,
                 ultimasAtividades, sheet, posts, limpeza>>

\* the upstream service reads the sheet for request g and answers (or fails)
UpstreamAnswersGet(g, outcome) ==
  /\ gets[g].fetch = "pending"
  /\ gets' = [gets EXCEPT ![g] =
               [@ EXCEPT !.fetch = "arrived",
                         !.reply = [outcome |-> outcome,
                                    data |-> IF outcome = "ok" THEN sheet ELSE 0]]]
  /\ UNCHANGED <<env, now, cachedMembros, lastMembrosFetchTime, req,
                 cachedLastPresences, lastPresencesFetchTime,
                 ultimasAtividades, sheet, posts, invalidated, limpeza>>

\* request g resumes: the rest of fetchFromAppsScript, of
\* getLastPresencesWithCache and of the route
GetResume(g) ==
  /\ gets[g].fetch = "arrived"
  /\ IF gets[g].reply.outcome = "ok"
     THEN /\ cachedLastPresences' = Some(gets[g].reply.data)
          /\ lastPresencesFetchTime' = now
          /\ gets' = [gets EXCEPT ![g] =
                       [@ EXCEPT !.pc = "done", !.fetch = "none",
                                 !.source = "upstream",
                                 !.res = PresenceResponse(200, TRUE,
                                           gets[g].reply.data, "")]]
     ELSE /\ UNCHANGED <<cachedLastPresences, lastPresencesFetchTime>>
          /\ gets' = [gets EXCEPT ![g] =
                       [@ EXCEPT !.pc = "done", !.fetch = "none",
                                 !.source = "error",
                                 !.res = PresenceResponse(500, FALSE, 0,
                                           fetchError(gets[g].reply.outcome))]]
  /\ UNCHANGED <<env, now, cachedMembros, lastMembrosFetchTime, req,
                 ultimasAtividades, sheet, posts, invalidated, limpeza>>

\* POST /presenca up to its first suspension: the invalidation, the activity
\* entry (after the group lookup when the members are cached) and the request
\* sent upstream
PresencaStart(p, body) ==
  /\ req["listen"].pc # "idle"
  /\ posts[p].pc = "idle"
  /\ \A q \in PostSlots : q < p => posts[q].pc # "idle"
  /\ cachedLastPresences' = Null
  /\ lastPresencesFetchTime' = 0
  /\ invalidated' = TRUE
  /\ LET rec == [IdleCall EXCEPT !.body = body]
     IN IF ~registersActivity(body)
        THEN /\ posts' = [posts EXCEPT ![p] = enviarPresenca(rec)]
             /\ UNCHANGED ultimasAtividades
        ELSE IF ~needsGroupLookup(body)
        THEN /\ posts' = [posts EXCEPT ![p] = enviarPresenca(rec)]
             /\ ultimasAtividades' = registrarAtividade(body, body.grupo)
        ELSE IF cacheFresh
        THEN /\ posts' = [posts EXCEPT ![p] = enviarPresenca(rec)]
             /\ ultimasAtividades' =
                  registrarAtividade(body,
                    grupoDoMembro(cachedMembros[1], body.nome, body.grupo))
        ELSE IF configMissing
        THEN /\ posts' = [posts EXCEPT ![p] = enviarPresenca(rec)]
             /\ ultimasAtividades' = registrarAtividade(body, body.grupo)
        ELSE /\ posts' = [posts EXCEPT ![p] =
                           [rec EXCEPT !.pc = "awaitMembros", !.fetch = "pending"]]
             /\ UNCHANGED ultimasAtividades
  /\ UNCHANGED <<env, now, cachedMembros, lastMembrosFetchTime, req, sheet,
                 gets, limpeza>>

\* the upstream service answers the getMembros round trip of request p
MembrosReply(p) ==
  /\ posts[p].pc = "awaitMembros"
  /\ posts[p].fetch = "pending"
  /\ posts' = [posts EXCEPT ![p].fetch = "arrived"]
  /\ UNCHANGED <<env, now, cachedMembros, lastMembrosFetchTime, req,
                 cachedLastPresences, lastPresencesFetchTime,
                 ultimasAtividades, sheet, gets, invalidated, limpeza>>

\* request p resumes after getMembrosWithCache: the cache is stored on
\* success, an error is caught and logged; then the activity entry and the
\* request sent upstream
PresencaResumeMembros(p, up) ==
  /\ posts[p].pc = "awaitMembros"
  /\ posts[p].fetch = "arrived"
  /\ LET data == fetchResult(up)
         body == posts[p].body
     IN /\ IF data.kind = "ok"
           THEN /\ cachedMembros' = Some(data.membros)
                /\ lastMembrosFetchTime' = now
           ELSE UNCHANGED <<cachedMembros, lastMembrosFetchTime>>
        /\ ultimasAtividades' =
             registrarAtividade(body,
               IF data.kind = "ok"
               THEN grupoDoMembro(data.membros, body.nome, body.grupo)
               ELSE body.grupo)
        /\ posts' = [posts EXCEPT ![p] = enviarPresenca(posts[p])]
  /\ UNCHANGED <<env, now, req, cachedLastPresences, lastPresencesFetchTime,
                 sheet, gets, invalidated, limpeza>>

\* the upstream service handles the POST of request p: it applies the
\* mutation to the sheet and answers, or fails and applies nothing
UpstreamAppliesPresenca(p, outcome) ==
  /\ posts[p].pc = "awaitPost"
  /\ posts[p].fetch = "pending"
  /\ sheet' = IF outcome = "ok" THEN sheet + 1 ELSE sheet
  /\ posts' = [posts EXCEPT ![p] =
                [@ EXCEPT !.fetch = "arrived",
                          !.reply = [outcome |-> outcome,
                                     data |-> IF outcome = "ok" THEN sheet + 1 ELSE 0]]]
  /\ UNCHANGED <<env, now, cachedMembros, lastMembrosFetchTime, req,
                 cachedLastPresences, lastPresencesFetchTime,
                 ultimasAtividades, gets, invalidated, limpeza>>

\* a resumption of /presenca whose catch undoes the request: the entry it
\* registered is taken off the log
PresencaResumeRollback(p) ==
  /\ posts[p].pc = "awaitPost"
  /\ posts[p].fetch = "arrived"
  /\ posts' = [posts EXCEPT ![p] =
                IF posts[p].reply.outcome = "ok"
                THEN [@ EXCEPT !.pc = "done", !.fetch = "none",
                               !.source = "upstream",
                               !.res = PresenceResponse(200, TRUE,
                                         posts[p].reply.data, "")]
                ELSE [@ EXCEPT !.pc = "done", !.fetch = "none",
                               !.source = "error",
                               !.res = PresenceResponse(500, FALSE, 0,
                                         fetchError(posts[p].reply.outcome))]]
  /\ ultimasAtividades' =
       IF posts[p].reply.outcome # "ok" /\ registersActivity(posts[p].body)
       THEN Tail(ultimasAtividades)
       ELSE ultimasAtividades
  /\ UNCHANGED <<env, now, cachedMembros, lastMembrosFetchTime, req,
                 cachedLastPresences, lastPresencesFetchTime,
                 sheet, gets, invalidated, limpeza>>

\* request p resumes after the POST: res.status(200).json(responseData), or
\* the catch
PresencaResume(p) ==
  /\ posts[p].pc = "awaitPost"
  /\ posts[p].fetch = "arrived"
  /\ posts' = [posts EXCEPT ![p] =
                IF posts[p].reply.outcome = "ok"
                THEN [@ EXCEPT !.pc = "done", !.fetch = "none",
                               !.source = "upstream",
                               !.res = PresenceResponse(200, TRUE,
                                         posts[p].reply.data, "")]
                ELSE [@ EXCEPT !.pc = "done", !.fetch = "none",
                               !.source = "error",
                               !.res = PresenceResponse(500, FALSE, 0,
                                         fetchError(posts[p].reply.outcome))]]
  /\ UNCHANGED <<env, now, cachedMembros, lastMembrosFetchTime, req,
                 cachedLastPresences, lastPresencesFetchTime,
                 ultimasAtividades, sheet, gets, invalidated, limpeza>>

\* the admin pair plays no part in these routes: the environment is either
\* complete or lacks the Apps Script URL
InitPresence ==
  /\ Init
  /\ env \in {Env(Str_admin, Str_secret, Str_url),
              Env(Str_admin, Str_secret, Undefined)}

NextPresence ==
  \/ ListenWithTestActivities
  \/ UpstreamReply("listen")
  \/ \E up \in MembrosOutcomes : Resume("listen", up)
  \/ \E g \in GetSlots : GetStart(g)
  \/ \E g \in GetSlots, outcome \in ReplyOutcomes : UpstreamAnswersGet(g, outcome)
  \/ \E g \in GetSlots : GetResume(g)
  \/ \E p \in PostSlots, body \in PresencaBodies : PresencaStart(p, body)
  \/ \E p \in PostSlots : MembrosReply(p)
  \/ \E p \in PostSlots, up \in MembrosOutcomes : PresencaResumeMembros(p, up)
  \/ \E p \in PostSlots, outcome \in ReplyOutcomes : UpstreamAppliesPresenca(p, outcome)
  \/ \E p \in PostSlots : PresencaResume(p)
  \/ Tick

\* the server of part_002 restricted to the presence routes
SpecPresence == InitPresence /\ [][NextPresence]_vars

-----------------------------------------------------------------------------
(* GET /get-membros of src/unnamed/part_002: the roster read through the
   cache and answered with the photo of each member attached. *)

AsciiAlnum ==
  {UpperChars[i] : i \in 1..26} \cup {LowerChars[i] : i \in 1..26}
    \cup {"0","1","2","3","4","5","6","7","8","9"}

\* name ? name.replace(/[^a-zA-Z0-9]/g, "_").toLowerCase() : ""
createSafeFileName(name) ==
  IF ~Truthy(name) THEN <<>>
  ELSE toLowerCase([i \in 1..Len(name) |->
                      IF name[i] \in AsciiAlnum THEN name[i] ELSE "_"])

\* the photos loaded when the server started: Carlos Souza has one
memberPhotos ==
  [safeFileName \in {<<"c","a","r","l","o","s","_","s","o","u","z","a">>} |->
     "/uploads/member-photos/carlos_souza_1700000000000.jpg"]

\* membersArray.map(...): a new list of new records, each the member's
\* fields and FotoURL (the member's own FotoURL, here none, without a photo)
updatedMembers(membersArray) ==
  [i \in 1..Len(membersArray) |->
     LET member == membersArray[i]
         safeFileName == createSafeFileName(member.Nome)
     IN [f \in DOMAIN member \cup {"FotoURL"} |->
           IF f # "FotoURL" THEN member[f]
           ELSE IF safeFileName \in DOMAIN memberPhotos
           THEN <<"http://host", memberPhotos[safeFileName]>>
           ELSE Undefined]]

\* GET /get-membros annotating the cached records themselves
GetMembrosStartInPlace(g) ==
  /\ req["listen"].pc # "idle"
  /\ gets[g].pc = "idle"
  /\ \A h \in GetSlots : h < g => gets[h].pc # "idle"
  /\ IF cacheFresh
     THEN /\ gets' = [gets EXCEPT ![g] =
                       [@ EXCEPT !.pc = "done", !.source = "cache",
                                 !.res = PresenceResponse(200, TRUE,
                                           updatedMembers(cachedMembros[1]), "")]]
          /\ cachedMembros' = Some(updatedMembers(cachedMembros[1]))
     ELSE /\ cachedMembros' = cachedMembros
          /\ IF configMissing
             THEN gets' = [gets EXCEPT ![g] =
                            [@ EXCEPT !.pc = "done", !.source = "error",
                                      !.res = PresenceResponse(500, FALSE, 0, ErrConfig)]]
             ELSE gets' = [gets EXCEPT ![g] =
                            [@ EXCEPT !.pc = "await", !.fetch = "pending"]]
  /\ UNCHANGED <<env, now, lastMembrosFetchTime, req,
                 cachedLastPresences, lastPresencesFetchTime,
                 ultimasAtividades, sheet, posts, invalidated, limpeza>>

\* GET /get-membros up to its first suspension: on a fresh cache the answer
\* is made from a new wrapper around the cached list
GetMembrosStart(g) ==
  /\ req["listen"].pc # "idle"
  /\ gets[g].pc = "idle"
  /\ \A h \in GetSlots : h < g => gets[h].pc # "idle"
  /\ IF cacheFresh
     THEN gets' = [gets EXCEPT ![g] =
                    [@ EXCEPT !.pc = "done", !.source = "cache",
                              !.res = PresenceResponse(200, TRUE,
                                        updatedMembers(cachedMembros[1]), "")]]
     ELSE IF configMissing
     THEN gets' = [gets EXCEPT ![g] =
                    [@ EXCEPT !.pc = "done", !.source = "error",
                              !.res = PresenceResponse(500, FALSE, 0, ErrConfig)]]
     ELSE gets' = [gets EXCEPT ![g] =
                    [@ EXCEPT !.pc = "await", !.fetch = "pending"]]
  /\ UNCHANGED <<env, now, cachedMembros, lastMembrosFetchTime, req,
                 cachedLastPresences, lastPresencesFetchTime,
                 ultimasAtividades, sheet, posts, invalidated, limpeza>>

\* the upstream service answers the roster request of g (or the request fails)
GetMembrosReply(g, up) ==
  /\ gets[g].fetch = "pending"
  /\ gets' = [gets EXCEPT ![g] =
               [@ EXCEPT !.fetch = "arrived",
                         !.reply = [outcome |-> up.outcome, data |-> up.membros]]]
  /\ UNCHANGED <<env, now, cachedMembros, lastMembrosFetchTime, req,
                 cachedLastPresences, lastPresencesFetchTime,
                 ultimasAtividades, sheet, posts, invalidated, limpeza>>

\* request g resumes: the rest of fetchFromAppsScript and of
\* getMembrosWithCache (the fetched list is stored), then the photos are
\* attached to a copy and the answer is written
GetMembrosResume(g) ==
  /\ gets[g].fetch = "arrived"
  /\ IF gets[g].reply.outcome = "ok"
     THEN /\ cachedMembros' = Some(gets[g].reply.data)
          /\ lastMembrosFetchTime' = now
          /\ gets' = [gets EXCEPT ![g] =
                       [@ EXCEPT !.pc = "done", !.fetch = "none",
                                 !.source = "upstream",
                                 !.res = PresenceResponse(200, TRUE,
                                           updatedMembers(gets[g].reply.data), "")]]
     ELSE /\ UNCHANGED <<cachedMembros, lastMembrosFetchTime>>
          /\ gets' = [gets EXCEPT ![g] =
                       [@ EXCEPT !.pc = "done", !.fetch = "none",
                                 !.source = "error",
                                 !.res = PresenceResponse(500, FALSE, 0,
                                           fetchError(gets[g].reply.outcome))]]
  /\ UNCHANGED <<env, now, req, cachedLastPresences, lastPresencesFetchTime,
                 ultimasAtividades, sheet, posts, invalidated, limpeza>>

NextMembros ==
  \/ Listen
  \/ LoginStart(Str_Carlos, Str_123)
  \/ \E r \in Slots : UpstreamReply(r)
  \/ \E r \in Slots, up \in MembrosOutcomes : Resume(r, up)
  \/ \E g \in GetSlots : GetMembrosStart(g)
  \/ \E g \in GetSlots, up \in MembrosOutcomes : GetMembrosReply(g, up)
  \/ \E g \in GetSlots : GetMembrosResume(g)
  \/ Tick

\* the server of part_002 restricted to the readers of the roster cache
SpecMembros == InitPresence /\ [][NextMembros]_vars

-----------------------------------------------------------------------------
(* The roster cache while the upstream sheet is edited: here sheet counts the
   edits of the member rows, each edit adding a row, and a reply carries the
   rows as the service read them. *)

\* how many edits of the member rows a run takes
MaxEdits == 2

\* the member rows after v edits
rosterAt(v) ==
  [i \in 1..(v + 1) |->
     Member(Str_CarlosSouza, Str_123, Str_Membro, Undefined, Undefined,
            Undefined, Undefined)]

\* how a roster request answered now may end: the rows of this moment, or a
\* transport failure
CurrentOutcomes ==
  { [outcome |-> "ok", membros |-> rosterAt(sheet)],
    [outcome |-> "transport", membros |-> <<>>] }

\* somebody edits the member rows of the upstream sheet
UpstreamEdit ==
  /\ sheet < MaxEdits
  /\ sheet' = sheet + 1
  /\ UNCHANGED <<env, now, cachedMembros, lastMembrosFetchTime, req,
                 cachedLastPresences, lastPresencesFetchTime,
                 ultimasAtividades, gets, posts, invalidated, limpeza>>

NextEdits ==
  \/ Listen
  \/ UpstreamReply("listen")
  \/ \E up \in CurrentOutcomes : Resume("listen", up)
  \/ \E g \in GetSlots : GetMembrosStart(g)
  \/ \E g \in GetSlots, up \in CurrentOutcomes : GetMembrosReply(g, up)
  \/ \E g \in GetSlots : GetMembrosResume(g)
  \/ UpstreamEdit
  \/ Tick

SpecEdits == InitPresence /\ [][NextEdits]_vars

-----------------------------------------------------------------------------
(* The /login of src/unnamed/part_005: the administrator pair has defaults,
   the roster is fetched on every login (no cache) and the user is looked up
   by the Lider column. *)

\* String(v): text as it is, undefined as the text "undefined"
StringOf(v) ==
  IF IsString(v) THEN v ELSE <<"u","n","d","e","f","i","n","e","d">>

\* process.env.ADMIN_USERNAME || 'admin' and process.env.ADMIN_RI || 'admin'
adminUsernameOrDefault == IF Truthy(env.ADMIN_USERNAME) THEN env.ADMIN_USERNAME ELSE Str_admin
adminRiOrDefault == IF Truthy(env.ADMIN_RI) THEN env.ADMIN_RI ELSE Str_admin

\* membros.find(...): the first record whose Lider column, lower-cased and
\* trimmed, is the username, lower-cased and trimmed; 0 when there is none
liderEncontrado(membros, username) ==
  LET usernameDigitado == trim(toLowerCase(StringOrEmpty(username)))
      found == {i \in 1..Len(membros) :
                  trim(toLowerCase(StringOrEmpty(membros[i].Lider))) = usernameDigitado}
  IN IF found = {} THEN 0 ELSE CHOOSE i \in found : \A j \in found : i <= j

\* the try block of /login once fetchFromAppsScript returned membros
authenticatePart005(username, password, membros) ==
  IF Len(membros) = 0
  THEN Response(404, FALSE, "Erro: Nao foi possivel carregar os dados de membros ou a lista esta vazia para autenticacao.", Undefined)
  ELSE LET found == liderEncontrado(membros, username)
       IN IF found = 0
          THEN Response(401, FALSE, "Usuario (Lider) nao encontrado ou credenciais invalidas.", Undefined)
          ELSE IF trim(StringOf(membros[found].RI)) = trim(StringOf(password))
          THEN Response(200, TRUE, MsgLeader, Undefined)
          ELSE Response(401, FALSE, "Senha invalida para o lider fornecido.", Undefined)

\* the usernames and passwords tried on this login: missing, the default
\* pair, the configured pair, a value of the Lider column, a credential
Part005Usernames == {Undefined, Str_admin, Str_Admin, Str_G1_Ana, Str_Bia}
Part005Passwords == {Undefined, Str_admin, Str_secret, Str_123}

\* POST /login up to its first suspension. username.toLowerCase() stands
\* before the try: with a username that is no text the TypeError leaves the
\* handler and no response is written.
LoginStartPart005(username, password) ==
  /\ req["login"].pc \in {"idle", "done"}
  /\ LET rec == [IdleReq EXCEPT !.username = username, !.password = password]
     IN req' = [req EXCEPT !["login"] =
          IF ~IsString(username)
          THEN [rec EXCEPT !.pc = "done", !.escaped = TRUE]
          ELSE IF /\ toLowerCase(username) = toLowerCase(adminUsernameOrDefault)
                  /\ password = adminRiOrDefault
          THEN [rec EXCEPT !.pc = "done", !.nres = 1,
                           !.res = Response(200, TRUE, MsgAdmin, Undefined)]
          ELSE IF configMissing
          THEN [rec EXCEPT !.pc = "done", !.nres = 1, !.data = Thrown(ErrConfig),
                           !.res = Response(500, FALSE, MsgInternal, Undefined)]
          ELSE [rec EXCEPT !.pc = "await", !.fetch = "pending"]]
  /\ UNCHANGED <<env, now, cachedMembros, lastMembrosFetchTime>>
  /\ UNCHANGED pvars

\* the login resumes with the outcome of its round trip: the rest of
\* fetchFromAppsScript (every failure is thrown) and of the try block
ResumePart005(up) ==
  /\ req["login"].fetch = "arrived"
  /\ LET rec == req["login"]
     IN req' = [req EXCEPT !["login"] =
          IF up.outcome = "ok"
          THEN [rec EXCEPT !.pc = "done", !.fetch = "none", !.nres = 1,
                           !.data = OkData(up.membros),
                           !.found = liderEncontrado(up.membros, rec.username),
                           !.res = authenticatePart005(rec.username, rec.password,
                                                       up.membros)]
          ELSE [rec EXCEPT !.pc = "done", !.fetch = "none", !.nres = 1,
                           !.data = Thrown(ErrUpstream),
                           !.res = Response(500, FALSE, MsgInternal, Undefined)]]
  /\ UNCHANGED <<env, now, cachedMembros, lastMembrosFetchTime>>
  /\ UNCHANGED pvars

NextPart005 ==
  \/ \E u \in Part005Usernames, p \in Part005Passwords : LoginStartPart005(u, p)
  \/ UpstreamReply("login")
  \/ \E up \in UpstreamOutcomes : ResumePart005(up)

SpecPart005 == Init /\ [][NextPart005]_vars

-----------------------------------------------------------------------------
(* The normaliser and the name lookup of the /login of src/unnamed/part_004 *)

\* the characters the pattern /[^a-z0-9\s]/g leaves in place
StrictChars ==
  {LowerChars[i] : i \in 1..26}
    \cup {"0","1","2","3","4","5","6","7","8","9"} \cup Whitespace

\* normalizeString (strict variant)
normalizeStringStrict(str) ==
  IF ~IsString(str) THEN <<>>
  ELSE trim(SelectSeq(stripMarks(normalizeNFD(toLowerCase(str))),
                      LAMBDA c : c \in StrictChars))

\* s.split(sep) for a separator of one character
RECURSIVE split(_, _)
split(s, sep) ==
  IF \A i \in 1..Len(s) : s[i] # sep THEN <<s>>
  ELSE LET i == CHOOSE k \in 1..Len(s) :
                  s[k] = sep /\ \A j \in 1..(k - 1) : s[j] # sep
       IN <<SubSeq(s, 1, i - 1)>> \o split(SubSeq(s, i + 1, Len(s)), sep)

\* the index of the first member among hits, 0 when there is none
firstOf(hits) ==
  IF hits = {} THEN 0 ELSE CHOOSE i \in hits : \A j \in hits : i <= j

\* membroEncontradoPeloNome: the exact match, else the first name that starts
\* with the username, else the first name holding every word of the username
membroEncontradoPeloNome(membros, usernameDigitadoNormalized) ==
  LET nome(i) == normalizeStringStrict(StringOrEmpty(membros[i].Nome))
      usernameWords == SelectSeq(split(usernameDigitadoNormalized, " "),
                                 LAMBDA w : Len(w) > 0)
      exact == firstOf({i \in 1..Len(membros) :
                 nome(i) = usernameDigitadoNormalized})
      start == firstOf({i \in 1..Len(membros) :
                 startsWith(nome(i), usernameDigitadoNormalized)})
      words == firstOf({i \in 1..Len(membros) :
                 \A k \in 1..Len(usernameWords) :
                    includes(nome(i), usernameWords[k])})
  IN IF exact # 0 THEN exact ELSE IF start # 0 THEN start ELSE words

Str_JoaoSilva    == <<"J","o","a~","o"," ","S","i","l","v","a">>
Str_MarianaSouza == <<"M","a","r","i","a","n","a"," ","S","o","u","z","a">>
Str_SilvaJoao    == <<"S","i","l","v","a"," ","J","o","a","o">>
Str_SilvaTabJoao == <<"S","i","l","v","a","\t","J","o","a","o">>
Str_Silva2Joao   == <<"S","i","l","v","a"," "," ","J","o","a","o">>
Str_Zed          == <<"Z","e","d">>

\* rosters for the lookup: a name met only by its words, a name that holds
\* "ana" inside standing before one that starts with it, and an exact name
\* standing last
NameList(nomes) ==
  [i \in 1..Len(nomes) |->
     Member(nomes[i], Str_123, Str_Lider, Undefined, Undefined, Undefined, Undefined)]

MatchRosters ==
  { NameList(<<Str_JoaoSilva>>),
    NameList(<<Str_MarianaSouza, Str_AnaPaula>>),
    NameList(<<Str_MarianaSouza, Str_AnaPaula, Str_Ana>>),
    NameList(<<Str_AnaPaula, Str_MarianaSouza, Str_JoaoSilva>>),
    NameList(<<Str_Ana, Str_JoaoSilva, Str_MarianaSouza>>),
    NameList(<<Str_MariaSilva, Str_JoaoSilva, Str_CarlosSouza>>) }

MatchUsernames ==
  { Str_Ana, Str_AnaPaula, Str_SilvaJoao, Str_SilvaTabJoao, Str_Silva2Joao,
    Str_JoaoSilva, Str_Zed, Str_MariaSilva, Str_Carlos,
    <<"S","i","l","v","a">>, <<"J","o","a~","o"," ","S">>,
    <<"s","o","u","z","a"," ","m","a","r","i">> }

\* the lookup of /login on a roster at hand: lines 292-317 run with no
\* suspension once getMembrosWithCache has returned
LookupName(username, membros) ==
  /\ req["login"].pc \in {"idle", "done"}
  /\ req' = [req EXCEPT !["login"] =
       [IdleReq EXCEPT !.pc = "done", !.username = username,
                       !.data = OkData(membros),
                       !.found = membroEncontradoPeloNome(membros,
                                   normalizeStringStrict(username))]]
  /\ UNCHANGED <<env, now, cachedMembros, lastMembrosFetchTime>>
  /\ UNCHANGED pvars

NextMatch == \E u \in MatchUsernames, membros \in MatchRosters : LookupName(u, membros)

SpecMatch == Init /\ [][NextMatch]_vars

-----------------------------------------------------------------------------
(* The normaliser on its own: every text of up to MaxLen characters over a
   small alphabet, and a value that is no text *)

MaxLen == 3

\* a letter in both cases, plain and with a tilde (precomposed), the
\* combining tilde, a blank, a tab and a punctuation mark
NormAlphabet == {"a", "A", "a~", "A~", "U+0303", " ", "\t", "-"}

NormInputs ==
  {Undefined} \cup UNION {[1..n -> NormAlphabet] : n \in 0..MaxLen}

\* what the two variants of normalizeString return for one argument
Normalized(basic, strict) ==
  [kind |-> "normalized", basic |-> basic, strict |-> strict]

\* /login normalises the username of the body (server.js:163, part_004:292)
NormalizeUsername(username) ==
  /\ req["login"].pc = "idle"
  /\ req' = [req EXCEPT !["login"] =
       [IdleReq EXCEPT !.pc = "done", !.username = username,
                       !.data = Normalized(normalizeString(username),
                                           normalizeStringStrict(username))]]
  /\ UNCHANGED <<env, now, cachedMembros, lastMembrosFetchTime>>
  /\ UNCHANGED pvars

NextNormalize == \E username \in NormInputs : NormalizeUsername(username)

SpecNormalize == Init /\ [][NextNormalize]_vars

-----------------------------------------------------------------------------
(* The activity log under registrations and clearings (part_002) *)

\* how many times the clock advances while the log is watched
MaxLogTicks == 1

\* the body the registrations carry: it names its group, so /presenca
\* reaches adicionarAtividade without awaiting anything
LogBody == Body(Str_Bia, Undefined, Str_remover, Str_G1)

\* POST /presenca from its first statement to the call of adicionarAtividade,
\* which run in one turn of the event loop when the body names its group;
\* what follows the await of the POST does not touch the log
PresencaRegistra(body) ==
  /\ req["listen"].pc # "idle"
  /\ registersActivity(body)
  /\ ~needsGroupLookup(body)
  /\ cachedLastPresences' = Null
  /\ lastPresencesFetchTime' = 0
  /\ invalidated' = TRUE
  /\ ultimasAtividades' = registrarAtividade(body, body.grupo)
  /\ UNCHANGED <<env, now, cachedMembros, lastMembrosFetchTime, req, sheet,
                 gets, posts, limpeza>>

\* DELETE /ultimos-registros
LimparUltimosRegistros ==
  /\ req["listen"].pc # "idle"
  /\ LET totalAntes == Len(ultimasAtividades)
     IN /\ ultimasAtividades' = <<>>
        /\ limpeza' = Limpeza(200, TRUE, totalAntes)
  /\ UNCHANGED <<env, now, cachedMembros, lastMembrosFetchTime, req,
                 cachedLastPresences, lastPresencesFetchTime, sheet, gets,
                 posts, invalidated>>

\* POST /limpar-registros
LimparRegistros ==
  /\ req["listen"].pc # "idle"
  /\ LET totalAntes == Len(ultimasAtividades)
     IN /\ ultimasAtividades' = <<>>
        /\ limpeza' = Limpeza(200, TRUE, totalAntes)
  /\ UNCHANGED <<env, now, cachedMembros, lastMembrosFetchTime, req,
                 cachedLastPresences, lastPresencesFetchTime, sheet, gets,
                 posts, invalidated>>

\* Date.now() moves on between two requests
TickLog ==
  /\ now + HalfTTL <= StartTime + MaxLogTicks * HalfTTL
  /\ now' = now + HalfTTL
  /\ UNCHANGED <<env, cachedMembros, lastMembrosFetchTime, req>>
  /\ UNCHANGED pvars

InitLog ==
  /\ Init
  /\ env = Env(Str_admin, Str_secret, Str_url)

NextLog ==
  \/ ListenWithTestActivities
  \/ UpstreamReply("listen")
  \/ \E up \in MembrosOutcomes : Resume("listen", up)
  \/ PresencaRegistra(LogBody)
  \/ LimparUltimosRegistros
  \/ LimparRegistros
  \/ TickLog

\* the server of part_002 restricted to what acts on the activity log
SpecLog == InitLog /\ [][NextLog]_vars

-----------------------------------------------------------------------------
(* Vocabulary of the properties *)

login == req["login"]

\* the /login handler has answered after reading the roster
LoginSawRoster == login.pc = "done" /\ login.data.kind = "ok"

\* the three classes of outcome, by HTTP status
IsSuccess(res)     == res.status = 200 /\ res.success
IsDenied(res)      == res.status = 401 /\ ~res.success
IsServerError(res) == res.status \in {404, 500} /\ ~res.success

\* a call of getMembrosWithCache by handler r happens in this step: the
\* handler starts, and it is not a login answered by the admin test
CallsGetRoster(r) ==
  /\ req[r].pc \in {"idle", "done"}
  /\ req'[r] # req[r]
  /\ ~(r = "login" /\ req'[r].pc = "done" /\ req'[r].data.kind = "none")

\* handler r starts an upstream round trip in this step
StartsFetch(r) == req[r].fetch # "pending" /\ req'[r].fetch = "pending"

-----------------------------------------------------------------------------
(* C1 *)

\* the admin pair is configured and the login matches it
AdminMatch(username, password) ==
  /\ IsString(env.ADMIN_USERNAME) /\ env.ADMIN_USERNAME # <<>>
  /\ IsString(env.ADMIN_RI) /\ env.ADMIN_RI # <<>>
  /\ normalizeString(username) = normalizeString(env.ADMIN_USERNAME)
  /\ password = env.ADMIN_RI

\* a /login request arrives in this step
LoginArrives == login.pc \in {"idle", "done"} /\ req'["login"] # login

\* C1: when the admin pair is configured, a login with the admin username
\* (compared normalised) and the exact admin password is answered at once with
\* success and the marker "admin": it calls getMembrosWithCache not at all,
\* starts no upstream round trip and leaves the cache alone, whatever the cache
\* and the upstream are doing.
C1_AdminBeforeRoster ==
  [][ (LoginArrives /\ AdminMatch(req'["login"].username, req'["login"].password))
        => /\ req'["login"].pc = "done"
           /\ req'["login"].res = Response(200, TRUE, MsgAdmin, Str_admin)
           /\ req'["login"].nres = 1
           /\ req'["login"].data = NoData
           /\ \A r \in Slots : ~StartsFetch(r)
           /\ UNCHANGED <<cachedMembros, lastMembrosFetchTime>> ]_vars

\* an admin login answered while the cache is empty and the prefetch unanswered
C1_Witness ==
  /\ login.pc = "done"
  /\ login.username = Str_Admin /\ login.password = Str_secret
  /\ login.res = Response(200, TRUE, MsgAdmin, Str_admin)
  /\ cachedMembros = Null
  /\ req["listen"].fetch = "pending"

-----------------------------------------------------------------------------
(* C2 *)

\* the member /login resolved, and the roster it was resolved in
membros == login.data.membros
resolved == membros[login.found]

\* the supplied password is the resolved member's credential (both trimmed)
CredentialMatches ==
  trim(StringOrEmpty(login.password)) = trim(StringOrEmpty(resolved.RI))

\* the role title or the status carries the leadership marker
HasRoleMarker(m) ==
  \/ includes(normalizeString(StringOrEmpty(m.Cargo)), lider)
  \/ includes(normalizeString(StringOrEmpty(m.Status)), lider)

\* record outro names m in its leader field: the field, its group prefix
\* removed, holds a name, and that name and m's name are one a prefix of the other
NamesInLeaderField(outro, m) ==
  LET leaderName == normalizeString(nomeLiderExtraido(outro))
      name       == normalizeString(m.Nome)
  IN /\ leaderName # <<>>
     /\ startsWith(name, leaderName) \/ startsWith(leaderName, name)

\* C2: a login that resolves to a member and supplies that member's
\* credential is denied for lack of leadership whenever the member's role title
\* and status carry no leadership marker and no record of the roster names the
\* member in its leader field.
C2_NoLeadershipEvidenceDenied ==
  ( /\ LoginSawRoster
    /\ login.found # 0
    /\ CredentialMatches
    /\ ~HasRoleMarker(resolved)
    /\ \A i \in 1..Len(membros) : ~NamesInLeaderField(membros[i], resolved) )
  => login.res = Response(401, FALSE, MsgNotLeader, Undefined)

-----------------------------------------------------------------------------
(* C3 *)

\* C3: with a non-empty roster, a username that normalises to the empty
\* string resolves to no member and the login is denied as "user not found",
\* whatever the password.
C3_BlankUsernameNotFound ==
  ( /\ LoginSawRoster
    /\ Len(membros) > 0
    /\ normalizeString(login.username) = <<>> )
  => /\ login.found = 0
     /\ login.res = Response(401, FALSE, MsgNotFound, Undefined)

-----------------------------------------------------------------------------
(* C4 *)

\* C4: when some member's normalised name equals the normalised username,
\* the resolved member is one whose normalised name equals it, wherever in the
\* roster it stands.
C4_ExactMatchPreferred ==
  ( /\ LoginSawRoster
    /\ \E i \in 1..Len(membros) :
         normalizeString(membros[i].Nome) = normalizeString(login.username) )
  => /\ login.found # 0
     /\ normalizeString(resolved.Nome) = normalizeString(login.username)

-----------------------------------------------------------------------------
(* C5 *)

\* C5: whenever the username resolves to a member and the trimmed password
\* differs from that member's trimmed credential, the login is denied with the
\* "invalid credential" message, be the member a leader or not.
C5_CredentialBeforeLeadership ==
  (LoginSawRoster /\ login.found # 0 /\ ~CredentialMatches)
  => login.res = Response(401, FALSE, MsgBadPassword, Undefined)

\* a member with the leadership marker, resolved, with the wrong password
C5_Witness ==
  /\ LoginSawRoster
  /\ login.found # 0
  /\ ~CredentialMatches
  /\ HasRoleMarker(resolved)
  /\ login.res.message = MsgBadPassword

-----------------------------------------------------------------------------
(* C6 *)

\* getMembrosWithCache failed for the login, or gave it an empty roster
RosterUnavailable ==
  login.data.kind = "error" \/ (login.data.kind = "ok" /\ membros = <<>>)

\* C6: a login for which the roster fetch fails or yields an empty roster
\* ends in a server error (status 404 or 500 with the "members not loaded" or
\* the "internal error" message), which is neither the status nor a message of
\* a denial or of a success; no denial is ever answered without a roster.
C6_RosterFailureIsServerError ==
  (login.pc = "done" /\ login.data.kind # "none")
  => /\ RosterUnavailable
          => /\ IsServerError(login.res)
             /\ login.res.message \in {MsgNoMembers, MsgInternal}
     /\ ~RosterUnavailable
          => /\ IsSuccess(login.res) \/ IsDenied(login.res)
             /\ login.res.message \in
                  {MsgLeader, MsgNotLeader, MsgBadPassword, MsgNotFound}

\* a login answered 500 after the upstream round trip failed (a timeout)
C6_Witness ==
  /\ login.pc = "done"
  /\ login.data = Thrown(ErrInvalid)
  /\ login.res = Response(500, FALSE, MsgInternal, Undefined)

-----------------------------------------------------------------------------
(* C7 *)

-----------------------------------------------------------------------------
(* C8 *)

\* C8: no handler waits for the upstream service for ever: a handler
\* suspended in an upstream round trip eventually finishes.
C8_NoIndefiniteBlocking ==
  \A r \in Slots : (req[r].pc = "await") ~> (req[r].pc = "done")

-----------------------------------------------------------------------------
(* C9 *)

\* C9: once a fetch has stored a roster, every call of getMembrosWithCache
\* made while now - lastMembrosFetchTime < MEMBERS_CACHE_TTL returns that
\* roster at once, starts no upstream round trip and leaves the cache as it is.
C9_HitWithinTTL ==
  [][ \A r \in Slots :
        ( /\ CallsGetRoster(r)
          /\ cachedMembros # Null
          /\ now - lastMembrosFetchTime < MEMBERS_CACHE_TTL )
        => /\ ~StartsFetch(r)
           /\ req'[r].pc = "done"
           /\ r = "login" => req'[r].data = OkData(cachedMembros[1])
           /\ UNCHANGED <<cachedMembros, lastMembrosFetchTime>> ]_vars

\* a login served from the cache half a TTL after the roster was stored
C9_Witness ==
  /\ LoginSawRoster
  /\ login.fetch = "none"
  /\ cachedMembros = Some(membros)
  /\ membros # <<>>
  /\ now - lastMembrosFetchTime = HalfTTL
  /\ \A r \in Slots : req[r].fetch = "none"

-----------------------------------------------------------------------------
(* C10 *)

\* getLastPresencesWithCache is called for request g in this step
CallsGetLastPresences(g) == gets[g].pc = "idle" /\ gets'[g].pc # "idle"

\* C10: after /presenca has invalidated the last-presences cache, the next
\* call of getLastPresencesWithCache goes to the upstream service, whatever
\* the time elapsed: it is never answered from the cache.
C10_InvalidateForcesFetch ==
  [][\A g \in GetSlots :
       (invalidated /\ CallsGetLastPresences(g)) => gets'[g].source # "cache"]_vars

-----------------------------------------------------------------------------
(* C11 *)

\* POST /presenca request p arrives in this step
PresencaArrives(p) == posts[p].pc = "idle" /\ posts'[p].pc # "idle"

\* C11: a POST /presenca forces the roster cache stale at once: in the state
\* it leaves, cachedMembros does not pass the freshness test, so the next
\* call of getMembrosWithCache fetches from upstream.
C11_PresencaForcesRosterStale ==
  [][(\E p \in PostSlots : PresencaArrives(p)) => ~cacheFresh']_vars

-----------------------------------------------------------------------------
(* C12 *)

\* the round trip of handler r ends in this step and the handler resumes
FetchCompletes(r) == req[r].fetch = "arrived" /\ req'[r].fetch # "arrived"

\* the cache takes the roster of a fetch that completes now
StoresRoster == cachedMembros' # Null /\ lastMembrosFetchTime' = now

\* C12: a fetch that fails, whatever the failure, leaves cachedMembros and
\* lastMembrosFetchTime exactly as they were and reaches the caller as an
\* error (/login answers 500); nothing of the failure is cached, so a call
\* of getMembrosWithCache on an empty or stale cache starts a new fetch.
C12_FailureNotCached ==
  [][ /\ \A r \in Slots :
           FetchCompletes(r) =>
             \/ /\ StoresRoster
                /\ r = "login" => req'[r].data = OkData(cachedMembros'[1])
             \/ /\ UNCHANGED <<cachedMembros, lastMembrosFetchTime>>
                /\ r = "login" =>
                     /\ req'[r].data.kind = "error"
                     /\ req'[r].res = Response(500, FALSE, MsgInternal, Undefined)
      /\ \A r \in Slots :
           (CallsGetRoster(r) /\ ~cacheFresh /\ ~configMissing) => StartsFetch(r)
    ]_vars

\* a login whose fetch failed while a stale roster was cached: the roster
\* and its timestamp are still there
C12_Witness ==
  /\ login.pc = "done"
  /\ login.data.kind = "error"
  /\ login.data.error # ErrConfig
  /\ cachedMembros # Null
  /\ now - lastMembrosFetchTime >= MEMBERS_CACHE_TTL

-----------------------------------------------------------------------------
(* C13 *)

\* C13: cachedMembros and lastMembrosFetchTime change only together, in the
\* one step in which a fetch completes, and that step sets the timestamp to
\* the time of the completion; until a roster is stored the timestamp is 0.
\* No state shows a roster with the timestamp of another completion.
C13_AtomicReplace ==
  /\ [](cachedMembros = Null <=> lastMembrosFetchTime = 0)
  /\ [][ (cachedMembros' # cachedMembros
            \/ lastMembrosFetchTime' # lastMembrosFetchTime)
         => /\ StoresRoster
            /\ \E r \in Slots : FetchCompletes(r) ]_vars

\* two fetches were in flight together and the roster of one of them replaced
\* the roster stored by the other
C13_Witness ==
  /\ req["listen"].pc = "done"
  /\ LoginSawRoster
  /\ login.data.membros # <<>>
  /\ cachedMembros # Null
  /\ cachedMembros # Some(login.data.membros)
  /\ lastMembrosFetchTime = now

-----------------------------------------------------------------------------
(* C14 *)

\* a handler other than r has a round trip in flight
OtherInFlight(r) == \E o \in Slots \ {r} : req[o].fetch \in {"pending", "arrived"}

\* C14: a call of getMembrosWithCache that finds the cache empty or stale
\* while another caller's fetch is still in flight does not wait for that
\* fetch: it starts a round trip of its own.
C14_MissesNotCoalesced ==
  [][ \A r \in Slots :
        (CallsGetRoster(r) /\ ~cacheFresh /\ OtherInFlight(r)) => StartsFetch(r)
    ]_vars

\* a login arrived while the startup prefetch was in flight: two roster
\* fetches are in flight at once
C14_Witness ==
  /\ req["listen"].fetch = "pending"
  /\ req["login"].fetch = "pending"

-----------------------------------------------------------------------------
(* C15 *)

\* C15: when no other caller has a fetch in flight, a call of
\* getMembrosWithCache that misses calls fetchFromAppsScript once (one round
\* trip, or the configuration error thrown before any request) and a call
\* that hits starts none; a round trip starts only in the step of the call,
\* and when it completes the call is over, failed or not: nothing is retried.
C15_OneFetchPerMiss ==
  [][ \A r \in Slots :
        /\ (CallsGetRoster(r) /\ ~OtherInFlight(r) /\ ~cacheFresh) =>
             IF configMissing
             THEN /\ req'[r].pc = "done"
                  /\ req'[r].fetch = "none"
                  /\ r = "login" => req'[r].data = Thrown(ErrConfig)
             ELSE StartsFetch(r) /\ req'[r].pc = "await"
        /\ (CallsGetRoster(r) /\ ~OtherInFlight(r) /\ cacheFresh) =>
             req'[r].fetch = "none" /\ req'[r].pc = "done"
        /\ StartsFetch(r) => CallsGetRoster(r)
        /\ FetchCompletes(r) => req'[r].pc = "done" /\ req'[r].fetch = "none"
    ]_vars

\* a login that missed with nothing else in flight, whose one fetch failed:
\* the login is over and no round trip is in flight
C15_Witness ==
  /\ req["listen"].pc = "done"
  /\ login.pc = "done"
  /\ login.data.kind = "error"
  /\ login.data.error \in {ErrStatus, ErrSyntax, ErrUpstream, ErrInvalid}
  /\ login.fetch = "none"
  /\ cachedMembros = Null

-----------------------------------------------------------------------------
(* C16 *)

\* C16: the TTL is 300 s and its boundary is exclusive: a call of
\* getMembrosWithCache on a cached roster is answered from the cache only
\* while now - lastMembrosFetchTime < TTL; at TTL exactly and beyond it
\* starts a fetch, and a fetch that succeeds replaces roster and timestamp and
\* hands the new roster to the caller.
C16_TTLBoundaryExclusive ==
  /\ [](MEMBERS_CACHE_TTL = 300 * 1000)
  /\ [][ \A r \in Slots :
           /\ ( /\ CallsGetRoster(r)
                /\ cachedMembros # Null
                /\ now - lastMembrosFetchTime >= MEMBERS_CACHE_TTL
                /\ ~configMissing ) => StartsFetch(r)
           /\ ( /\ CallsGetRoster(r)
                /\ req'[r].pc = "done"
                /\ r = "login"
                /\ req'[r].data.kind = "ok" )
                => now - lastMembrosFetchTime < MEMBERS_CACHE_TTL
           /\ ( /\ FetchCompletes(r)
                /\ r = "login"
                /\ req'[r].data.kind = "ok" )
                => /\ cachedMembros' = Some(req'[r].data.membros)
                   /\ lastMembrosFetchTime' = now
       ]_vars

\* a login has a fetch in flight while the cached roster is exactly one TTL old
C16_Witness ==
  /\ req["listen"].pc = "done"
  /\ login.pc = "await"
  /\ cachedMembros # Null
  /\ now - lastMembrosFetchTime = MEMBERS_CACHE_TTL

-----------------------------------------------------------------------------
(* C17 *)

\* the login was answered as a leader's, and as the administrator's
LeaderSuccess == login.pc = "done" /\ IsSuccess(login.res) /\ login.res.message = MsgLeader
AdminSuccess  == login.pc = "done" /\ IsSuccess(login.res) /\ login.res.message = MsgAdmin

\* C17: a login succeeds as a leader only if the password, trimmed, is the
\* very text of the resolved member's credential, trimmed (letter case
\* counts); it succeeds as the administrator only if the password is ADMIN_RI
\* character for character, blanks included.
C17_CredentialTrimmedExact ==
  /\ LeaderSuccess =>
       /\ LoginSawRoster
       /\ login.found # 0
       /\ IsString(login.password)
       /\ trim(login.password) = trim(StringOrEmpty(resolved.RI))
  /\ AdminSuccess => login.password = env.ADMIN_RI
  /\ (login.pc = "done" /\ IsSuccess(login.res)) => LeaderSuccess \/ AdminSuccess

\* a leader logged in with a password that differs from the credential only
\* by the blanks around it
C17_Witness ==
  /\ LeaderSuccess
  /\ login.password # resolved.RI
  /\ trim(login.password) = trim(resolved.RI)

-----------------------------------------------------------------------------
(* C18 *)

\* C18: a member without a leadership marker in role title and status, whom
\* no record but the member's own names in its leader field, is not a
\* leader: the login, credential right, is denied for lack of leadership.
C18_OwnRecordDoesNotCount ==
  ( /\ LoginSawRoster
    /\ login.found # 0
    /\ CredentialMatches
    /\ ~HasRoleMarker(resolved)
    /\ NamesInLeaderField(resolved, resolved)
    /\ \A i \in 1..Len(membros) :
         i # login.found => ~NamesInLeaderField(membros[i], resolved) )
  => login.res = Response(401, FALSE, MsgNotLeader, Undefined)

-----------------------------------------------------------------------------
(* C19 *)

\* the name a record's leader field holds: the field without the prefix
\* "<group> | " when it starts with it (letter case aside), normalised
LeaderFieldName(outro) ==
  LET field  == trim(StringOrEmpty(outro.Lider))
      group  == trim(StringOrEmpty(outro.Congregacao))
      prefix == group \o <<" ", "|", " ">>
  IN IF /\ group # <<>>
        /\ Len(field) >= Len(prefix)
        /\ toLowerCase(SubSeq(field, 1, Len(prefix))) = toLowerCase(prefix)
     THEN normalizeString(SubSeq(field, Len(prefix) + 1, Len(field)))
     ELSE normalizeString(field)

\* a is a prefix of b
IsPrefix(a, b) == Len(a) <= Len(b) /\ SubSeq(b, 1, Len(a)) = a

\* a record other than the resolved member's holds, in its leader field, a
\* name that is a prefix of the member's normalised name or has it as a prefix
NamedByAnother ==
  \E i \in 1..Len(membros) :
     /\ i # login.found
     /\ \/ IsPrefix(LeaderFieldName(membros[i]), normalizeString(resolved.Nome))
        \/ IsPrefix(normalizeString(resolved.Nome), LeaderFieldName(membros[i]))

\* C19: a member without a role marker is a leader when another record's
\* leader field, its "<group> | " prefix removed (letter case aside) and
\* normalised, is a prefix of the member's normalised name or has that name
\* as a prefix: with the credential right the login succeeds as that member.
C19_GroupBasedLeadership ==
  ( /\ LoginSawRoster
    /\ login.found # 0
    /\ CredentialMatches
    /\ ~HasRoleMarker(resolved)
    /\ NamedByAnother )
  => login.res = Response(200, TRUE, MsgLeader, resolved.Nome)

\* Maria Silva, a plain member, logged in as a leader: another record of
\* group G1 has the leader field "g1 | Maria S"
C19_Witness ==
  /\ LeaderSuccess
  /\ LoginSawRoster
  /\ resolved.Nome = Str_MariaSilva
  /\ ~HasRoleMarker(resolved)
  /\ ~NamesInLeaderField(resolved, resolved)
  /\ \E i \in 1..Len(membros) :
       /\ membros[i].Congregacao = Str_G1
       /\ membros[i].Lider = Str_G1_MariaS

-----------------------------------------------------------------------------
(* C20 *)

\* C20: a member whose normalised role title or status holds the
\* leadership marker is a leader in every roster, whatever the leader fields
\* say: with the credential right the login succeeds as that member.
C20_RoleBasedLeadership ==
  ( /\ LoginSawRoster
    /\ login.found # 0
    /\ CredentialMatches
    /\ HasRoleMarker(resolved) )
  => login.res = Response(200, TRUE, MsgLeader, resolved.Nome)

\* a member with the role title "Lider de Grupo" logged in as a leader
\* although no leader field of the roster names that member
C20_Witness ==
  /\ LeaderSuccess
  /\ LoginSawRoster
  /\ resolved.Cargo = Str_LiderDeGrupo
  /\ \A i \in 1..Len(membros) : ~NamesInLeaderField(membros[i], resolved)

-----------------------------------------------------------------------------
(* C21 *)

\* ADMIN_USERNAME or ADMIN_RI is not configured (unset or empty)
AdminUnconfigured == ~Truthy(env.ADMIN_USERNAME) \/ ~Truthy(env.ADMIN_RI)

\* C21: when ADMIN_USERNAME or ADMIN_RI is not configured, no login is
\* answered as the administrator's, whatever username and password it
\* brings.
C21_AdminDisabledWhenUnconfigured ==
  (AdminUnconfigured /\ login.pc = "done") =>
     /\ login.res.message # MsgAdmin
     /\ login.res.leaderName # Str_admin


-----------------------------------------------------------------------------
(* C22 *)

-----------------------------------------------------------------------------
(* C23 *)

\* a roster fetch of some handler completes successfully in this step and
\* delivers the list L (the prefetch of app.listen keeps no record of what
\* it was given)
RefreshDelivers(L) ==
  \/ \E r \in Slots :
       /\ FetchCompletes(r)
       /\ StoresRoster
       /\ r = "login" => req'[r].data = OkData(L)
  \/ \E g \in GetSlots :
       /\ gets[g].fetch = "arrived"
       /\ gets'[g].fetch = "none"
       /\ gets[g].reply = [outcome |-> "ok", data |-> L]

\* C23: the cached member list is one of the lists the upstream delivered,
\* record for record (no photo field is added to it), and it changes only
\* in a step in which a roster fetch completes successfully, to the very
\* list that fetch delivered: a login or a GET /get-membros answered from
\* the cache, with its photos attached, leaves the list as it was.
C23_CacheNeverMutatedInPlace ==
  /\ [](cachedMembros # Null =>
          \E up \in MembrosOutcomes : up.outcome = "ok" /\ cachedMembros[1] = up.membros)
  /\ [][cachedMembros' # cachedMembros =>
          (cachedMembros' # Null /\ RefreshDelivers(cachedMembros'[1]))]_vars

\* GET /get-membros was answered from the cache with a photo attached to a
\* record, and the cached list is not the list of the answer
C23_Witness ==
  \E g \in GetSlots :
    /\ gets[g].pc = "done"
    /\ gets[g].source = "cache"
    /\ cachedMembros # Null
    /\ gets[g].res.data # cachedMembros[1]
    /\ \E i \in 1..Len(gets[g].res.data) : gets[g].res.data[i].FotoURL # Undefined

-----------------------------------------------------------------------------
(* C24 *)

\* C24: the prefetch of app.listen runs once; when it ends, well or badly,
\* no exception leaves the callback and nothing is answered; a prefetch
\* that fails leaves the cache and its timestamp as they were and touches
\* no login; and while the cache is empty a call of getMembrosWithCache by
\* a login starts a fetch (or, with no APPS_SCRIPT_URL, fails at once).
C24_PrefetchFailureSwallowed ==
  /\ [](~req["listen"].escaped /\ req["listen"].nres = 0)
  /\ [][ /\ req["listen"].pc = "done" => req'["listen"] = req["listen"]
         /\ (req["listen"].pc # "done" /\ req'["listen"].pc = "done") =>
              /\ req'["login"] = req["login"]
              /\ \/ StoresRoster
                 \/ UNCHANGED <<cachedMembros, lastMembrosFetchTime>>
         /\ (cachedMembros = Null /\ CallsGetRoster("login")) =>
              IF configMissing
              THEN req'["login"].data = Thrown(ErrConfig)
              ELSE StartsFetch("login") ]_vars

\* the prefetch failed, the cache is empty, and a login that arrived later
\* has a fetch of its own in flight
C24_Witness ==
  /\ req["listen"].pc = "done"
  /\ cachedMembros = Null
  /\ ~configMissing
  /\ login.pc = "await"
  /\ login.fetch = "pending"

-----------------------------------------------------------------------------
(* C25 *)

\* C25: no step changes both caches: a step that stores or invalidates the
\* last presences leaves cachedMembros and lastMembrosFetchTime as they
\* were, and a step that stores the roster leaves cachedLastPresences and
\* lastPresencesFetchTime as they were; and GET /get-all-last-presences is
\* answered from its cache exactly when that cache is filled and younger
\* than 120 s, whatever the age of the roster.
C25_CachesIndependent ==
  [][ /\ (<<cachedLastPresences, lastPresencesFetchTime>>'
            # <<cachedLastPresences, lastPresencesFetchTime>>)
          => UNCHANGED <<cachedMembros, lastMembrosFetchTime>>
      /\ \A g \in GetSlots :
           (gets[g].pc = "idle" /\ gets'[g].pc # "idle") =>
             (gets'[g].source = "cache" <=>
                (cachedLastPresences # Null
                   /\ now - lastPresencesFetchTime < 120 * 1000)) ]_vars

\* both caches are filled, at different times; the roster is still fresh and
\* the last presences are not, and a GET has gone upstream for them
C25_Witness ==
  /\ cachedMembros # Null
  /\ cachedLastPresences # Null
  /\ cacheFresh
  /\ lastPresencesFetchTime # lastMembrosFetchTime
  /\ now - lastPresencesFetchTime >= 120 * 1000
  /\ \E g \in GetSlots : gets[g].pc = "await"

-----------------------------------------------------------------------------
(* C26 *)

\* t occurs in s as a run of consecutive characters
OccursIn(t, s) ==
  \E i \in 0..(Len(s) - Len(t)) : \A k \in 1..Len(t) : s[i + k] = t[k]

\* the whitespace-delimited tokens of s: its maximal runs of characters
\* that are not whitespace
TokensOf(s) ==
  { SubSeq(s, q[1], q[2]) :
      q \in { p \in (1..Len(s)) \X (1..Len(s)) :
                /\ p[1] <= p[2]
                /\ \A k \in p[1]..p[2] : s[k] \notin Whitespace
                /\ p[1] = 1 \/ s[p[1] - 1] \in Whitespace
                /\ p[2] = Len(s) \/ s[p[2] + 1] \in Whitespace } }

\* the normalised name of record i of the roster of the finished lookup
NameAt(i) == normalizeStringStrict(StringOrEmpty(membros[i].Nome))

\* the least of a set of indices, 0 for the empty set
LeastOf(S) == IF S = {} THEN 0 ELSE CHOOSE i \in S : \A j \in S : i <= j

\* C26: the lookup returns the first member whose normalised name is the
\* normalised username; when there is none, the first whose normalised name
\* starts with it; when there is none, the first whose normalised name holds
\* every whitespace-delimited token of the normalised username; and none
\* when no member meets any of the three.
C26_TieredResolution ==
  login.pc = "done" =>
    LET u == normalizeStringStrict(login.username)
        all == 1..Len(membros)
        exact == LeastOf({i \in all : NameAt(i) = u})
        start == LeastOf({i \in all : IsPrefix(u, NameAt(i))})
        words == LeastOf({i \in all :
                   \A t \in TokensOf(u) : OccursIn(t, NameAt(i))})
    IN login.found = IF exact # 0 THEN exact
                     ELSE IF start # 0 THEN start ELSE words


-----------------------------------------------------------------------------
(* C27 *)

\* C27: for every argument each variant of normalizeString returns a text,
\* the empty text when the argument is no text, and normalising what it
\* returned gives the same text again.
C27_NormalizerIdempotentTotal ==
  login.pc = "done" =>
    /\ IsString(login.data.basic)
    /\ IsString(login.data.strict)
    /\ ~IsString(login.username) =>
         (login.data.basic = <<>> /\ login.data.strict = <<>>)
    /\ normalizeString(login.data.basic) = login.data.basic
    /\ normalizeStringStrict(login.data.strict) = login.data.strict

\* a text that both variants changed, each into another non-empty text
C27_Witness ==
  /\ login.pc = "done"
  /\ IsString(login.username)
  /\ login.data.basic # <<>>
  /\ login.data.strict # <<>>
  /\ login.data.basic # login.username
  /\ login.data.strict # login.data.basic

-----------------------------------------------------------------------------
(* C28 *)

\* the upper-case form of one character
UpperOf(c) ==
  IF \E i \in 1..Len(LowerChars) : LowerChars[i] = c
  THEN UpperChars[CHOOSE i \in 1..Len(LowerChars) : LowerChars[i] = c]
  ELSE c

\* s in upper case
InUpperCase(s) == [i \in 1..Len(s) |-> UpperOf(s[i])]

\* s with no diacritics: the combining tilde dropped and the letters with a
\* tilde replaced by the plain letters
RECURSIVE WithoutDiacritics(_)
WithoutDiacritics(s) ==
  IF Len(s) = 0 THEN <<>>
  ELSE (CASE s[1] = "U+0303" -> <<>>
          [] s[1] = "a~" -> <<"a">>
          [] s[1] = "A~" -> <<"A">>
          [] OTHER -> <<s[1]>>) \o WithoutDiacritics(SubSeq(s, 2, Len(s)))

\* s with whitespace put around it
Padded(s) == <<" ", "\t">> \o s \o <<"\t", " ">>

\* C28: a text, the same text in upper case, the same text without its
\* diacritics and the same text with whitespace around it all normalise to
\* the same value, under either variant; so do 'Jo\~ao' and 'Joao'.
C28_NormalizerInsensitive ==
  /\ normalizeString(<<"J","o","a~","o">>) = normalizeString(<<"J","o","a","o">>)
  /\ (login.pc = "done" /\ IsString(login.username)) =>
       \A v \in {InUpperCase(login.username), WithoutDiacritics(login.username),
                 Padded(login.username),
                 Padded(InUpperCase(WithoutDiacritics(login.username)))} :
          /\ normalizeString(v) = login.data.basic
          /\ normalizeStringStrict(v) = login.data.strict

\* a text in upper case, with a diacritic and with whitespace around it was
\* normalised to the plain lower-case letter
C28_Witness ==
  /\ login.pc = "done"
  /\ login.username = <<" ", "A~", "\t">>
  /\ login.data.basic = <<"a">>

-----------------------------------------------------------------------------
(* C29 *)

\* how many edits the sheet had taken when the rows L were read from it
SnapshotVersion(L) == CHOOSE v \in 0..MaxEdits : rosterAt(v) = L

\* C29: whatever the order in which overlapping fetches of the roster
\* complete, a list stored in the cache is never older than the list it
\* replaces: rows read from the sheet after fewer edits never overwrite rows
\* read after more.
C29_CacheNeverRegresses ==
  [][ (cachedMembros # Null /\ cachedMembros' # Null) =>
        SnapshotVersion(cachedMembros'[1]) >= SnapshotVersion(cachedMembros[1])
    ]_vars

-----------------------------------------------------------------------------
(* C30 *)

\* C30: a GET /get-all-last-presences answered from the cache returns the
\* sheet with every presence mutation applied so far in it: data read from
\* the sheet before a mutation is never served from the cache after that
\* mutation was applied.
C30_NoPreMutationDataServed ==
  [][ \A g \in GetSlots :
        (gets[g].pc = "idle" /\ gets'[g].pc = "done" /\ gets'[g].source = "cache")
          => gets'[g].res.data = sheet ]_vars

-----------------------------------------------------------------------------
(* C31 *)

\* the password of the finished login is missing or has nothing but whitespace
BlankPassword ==
  \/ ~IsString(login.password)
  \/ \A i \in 1..Len(login.password) : login.password[i] \in Whitespace

\* C31: a login whose password is missing, empty or blank is never answered
\* as a leader's successful login, whatever the roster holds in the
\* credential column.
C31_BlankPasswordNeverLeader ==
  (login.pc = "done" /\ BlankPassword) => ~LeaderSuccess

-----------------------------------------------------------------------------
(* C32 *)

\* the cache holds an empty list younger than the TTL
EmptyRosterCached ==
  /\ cachedMembros = Some(<<>>)
  /\ now - lastMembrosFetchTime < 5 * 60 * 1000

\* C32: a fetch that succeeds with an empty list stores it with the time of
\* the moment; and while the cache holds an empty list younger than the TTL,
\* a login that reaches getMembrosWithCache starts no fetch, leaves the
\* cache as it is and is answered at once with the 404 of the empty roster.
C32_EmptyRosterCached ==
  [][ /\ \A r \in Slots :
           (FetchCompletes(r) /\ r = "login" /\ req'[r].data = OkData(<<>>)) =>
              (cachedMembros' = Some(<<>>) /\ lastMembrosFetchTime' = now)
      /\ (EmptyRosterCached /\ CallsGetRoster("login")) =>
           /\ ~StartsFetch("login")
           /\ req'["login"].pc = "done"
           /\ req'["login"].data = OkData(<<>>)
           /\ IsServerError(req'["login"].res)
           /\ req'["login"].res.status = 404
           /\ UNCHANGED <<cachedMembros, lastMembrosFetchTime>> ]_vars

\* the prefetch is over, the clock has moved since the empty list was
\* stored, and a login has its 404
C32_Witness ==
  /\ EmptyRosterCached
  /\ now > lastMembrosFetchTime
  /\ req["listen"].pc = "done"
  /\ login.pc = "done"
  /\ login.data = OkData(<<>>)
  /\ login.res.status = 404

-----------------------------------------------------------------------------
(* C33 *)

\* the POST of request p goes to the upstream service in this step
PostIssued(p) == posts[p].pc # "awaitPost" /\ posts'[p].pc = "awaitPost"

\* request p resumes in this step after a POST that failed
PostFails(p) ==
  /\ posts[p].pc = "awaitPost"
  /\ posts'[p].pc = "done"
  /\ posts[p].reply.outcome # "ok"

\* the log holds the entry of a request with this body
EntryOf(atividades, body) ==
  \E i \in 1..Len(atividades) :
    /\ atividades[i].pessoa = body.nome
    /\ atividades[i].tipo = tipoAtividade(acaoFinal(body))
    /\ atividades[i].detalhes = Str_Acao \o acaoFinal(body)

\* C33: the step in which /presenca arrives empties the last-presences
\* cache; when the POST goes upstream the request's entry is already in the
\* activity log; no step of the request ever refills the cache or shortens
\* the log; and when the POST fails the resumption leaves cache and log as
\* they are, the entry is still in the log, and the answer is a 500.
C33_NoRollbackOnFailedPost ==
  [][\A p \in PostSlots :
       /\ PresencaArrives(p) =>
            (cachedLastPresences' = Null /\ lastPresencesFetchTime' = 0)
       /\ (PostIssued(p) /\ registersActivity(posts'[p].body)) =>
            EntryOf(ultimasAtividades', posts'[p].body)
       /\ posts'[p] # posts[p] =>
            /\ cachedLastPresences' \in {cachedLastPresences, Null}
            /\ Len(ultimasAtividades') >= Len(ultimasAtividades)
       /\ PostFails(p) =>
            /\ UNCHANGED <<ultimasAtividades, cachedLastPresences,
                           lastPresencesFetchTime>>
            /\ registersActivity(posts[p].body) =>
                 EntryOf(ultimasAtividades', posts[p].body)
            /\ posts'[p].res.status = 500
            /\ ~posts'[p].res.success]_vars

\* a request whose POST failed upstream has its 500, its entry heads the
\* log, and the cache is still empty
C33_Witness ==
  \E p \in PostSlots :
    /\ posts[p].pc = "done"
    /\ posts[p].reply.outcome = "status"
    /\ posts[p].res.status = 500
    /\ registersActivity(posts[p].body)
    /\ ultimasAtividades[1].pessoa = posts[p].body.nome
    /\ EntryOf(ultimasAtividades, posts[p].body)
    /\ cachedLastPresences = Null
    /\ lastPresencesFetchTime = 0

-----------------------------------------------------------------------------
(* C34 *)

\* the log is ordered newest first
NewestFirst(atividades) ==
  \A i, j \in 1..Len(atividades) :
    i < j => atividades[i].timestampCompleto >= atividades[j].timestampCompleto

\* the log after the step is the log before it with one entry of this moment
\* in front, and without its last entry if it was full
PushedOne ==
  /\ Len(ultimasAtividades') =
       IF Len(ultimasAtividades) = 50 THEN 50 ELSE Len(ultimasAtividades) + 1
  /\ ultimasAtividades'[1].timestampCompleto = now
  /\ Tail(ultimasAtividades') =
       SubSeq(ultimasAtividades, 1, Len(ultimasAtividades') - 1)

\* C34: the activity log never holds more than 50 entries and is ordered
\* newest first; once the server listens, a step that changes the log either
\* puts one new entry in front, dropping the oldest entry if the log was
\* full, or empties it; and a step that empties a log or answers a clearing
\* request leaves the log empty and reports how many entries it held.
C34_LogBoundedNewestFirst ==
  /\ [](Len(ultimasAtividades) <= 50 /\ NewestFirst(ultimasAtividades))
  /\ [][ /\ (req["listen"].pc # "idle" /\ ultimasAtividades' # ultimasAtividades) =>
              (PushedOne \/ ultimasAtividades' = <<>>)
         /\ invalidated' # invalidated => PushedOne
         /\ (limpeza' # limpeza \/
             (ultimasAtividades # <<>> /\ ultimasAtividades' = <<>>)) =>
              /\ ultimasAtividades' = <<>>
              /\ limpeza' = Limpeza(200, TRUE, Len(ultimasAtividades)) ]_vars

\* a log never cleared that is full, spans more than one moment and has lost
\* every entry the listen callback put in: the oldest ones were dropped
C34_Witness ==
  /\ Len(ultimasAtividades) = 50
  /\ limpeza = NoLimpeza
  /\ \A i \in 1..50 : ultimasAtividades[i].detalhes # Str_Teste
  /\ ultimasAtividades[1].timestampCompleto > ultimasAtividades[50].timestampCompleto
=============================================================================
